---- MODULE Spec2Model ----
(***************************************************************************)
(* Query algebra of whoosh (src/whoosh/query.py): the query tree, its      *)
(* normalization, its equality and the construction of matchers from it.   *)
(*                                                                         *)
(* A query object is a record whose cls field is the Python class name and *)
(* whose other fields are the instance attributes.  A text is a sequence   *)
(* of one-character strings.  An exception raised by a method is the       *)
(* record Raise(name), returned in place of the method's result and        *)
(* propagated by every caller that does not catch it.                      *)
(***************************************************************************)
EXTENDS Integers, Sequences, FiniteSets, TLC

VARIABLES pc, q, q2, depth, res, res2, deleted, post, terms, readers, heap, field,
          frame, doc_offsets, base

vars ==
    <<pc, q, q2, depth, res, res2, deleted, post, terms, readers, heap, field,
      frame, doc_offsets, base>>

----------------------------------------------------------------------------
(* Bounds and alphabets                                                    *)

MaxDepth == 2
MaxLen == 3
NumDocs == 3

F == "f"
TA == <<"a">>
TB == <<"b">>
TC == <<"c">>
Star == "*"
Qm == "?"
Backslash == "\\"
\* Python's None as a member of Phrase.words
NoneWord == <<"None">>

----------------------------------------------------------------------------
(* Exceptions                                                              *)

Raise(name) == [cls |-> name]

ExceptionNames ==
    {"TypeError", "AttributeError", "NotImplementedError", "ValueError",
     "TermNotFound", "QueryError", "IndexError"}

IsError(r) == r.cls \in ExceptionNames

----------------------------------------------------------------------------
(* Constructors                                                            *)

NullQuery == [cls |-> "NullQuery"]

Term(fieldname, text, boost) ==
    [cls |-> "Term", fieldname |-> fieldname, text |-> text, boost |-> boost]

CompoundQuery(cls, subqueries, boost) ==
    [cls |-> cls, subqueries |-> subqueries, boost |-> boost]

And(subqueries, boost) == CompoundQuery("And", subqueries, boost)

Or(subqueries, boost, minmatch) ==
    [cls |-> "Or", subqueries |-> subqueries, boost |-> boost,
     minmatch |-> minmatch]

DisjunctionMax(subqueries, boost, tiebreak) ==
    [cls |-> "DisjunctionMax", subqueries |-> subqueries, boost |-> boost,
     tiebreak |-> tiebreak]

Not(query, boost) == [cls |-> "Not", query |-> query, boost |-> boost]

Prefix(fieldname, text, boost) ==
    [cls |-> "Prefix", fieldname |-> fieldname, text |-> text,
     boost |-> boost]

Wildcard(fieldname, text, boost) ==
    [cls |-> "Wildcard", fieldname |-> fieldname, text |-> text,
     boost |-> boost]

TermRange(fieldname, start, end, startexcl, endexcl, boost) ==
    [cls |-> "TermRange", fieldname |-> fieldname, start |-> start,
     end |-> end, startexcl |-> startexcl, endexcl |-> endexcl,
     boost |-> boost]

Phrase(fieldname, words, slop, boost) ==
    [cls |-> "Phrase", fieldname |-> fieldname, words |-> words,
     slop |-> slop, boost |-> boost]

\* class Every defines no __init__: it accepts no argument, and its
\* instances carry no boost attribute.  kwargs is the set of keyword names
\* the caller passes.
Every(kwargs) ==
    IF kwargs = {} THEN [cls |-> "Every"] ELSE Raise("TypeError")

Require(scoredquery, requiredquery, boost) ==
    [cls |-> "Require", subqueries |-> <<scoredquery, requiredquery>>,
     boost |-> boost]

AndMaybe(requiredquery, optionalquery, boost) ==
    [cls |-> "AndMaybe", subqueries |-> <<requiredquery, optionalquery>>,
     boost |-> boost]

AndNot(positive, negative, boost) ==
    [cls |-> "AndNot", positive |-> positive, negative |-> negative,
     boost |-> boost]

\* self.__class__(subqs, boost=self.boost) of a CompoundQuery subclass that
\* keeps CompoundQuery's signature: the optional minmatch / tiebreak take
\* their defaults.
NewCompound(cls, subqs, boost) ==
    CASE cls = "Or" -> Or(subqs, boost, 0)
      [] cls = "DisjunctionMax" -> DisjunctionMax(subqs, boost, 0)
      [] OTHER -> CompoundQuery(cls, subqs, boost)

----------------------------------------------------------------------------
(* Text helpers                                                            *)

Contains(text, ch) == \E i \in 1..Len(text) : text[i] = ch

\* str.find: 0-based index of the first occurrence, -1 when absent
Find(text, ch) ==
    IF Contains(text, ch)
    THEN (CHOOSE i \in 1..Len(text) :
              text[i] = ch /\ \A j \in 1..(i - 1) : text[j] # ch) - 1
    ELSE -1

EndsWith(text, ch) == Len(text) > 0 /\ text[Len(text)] = ch

----------------------------------------------------------------------------
(* normalize                                                               *)

RECURSIVE Normalize(_)

\* The loop of CompoundQuery.normalize over the non-null subqueries: returns
\* [cls |-> "list", items |-> subqs], or the exception a subquery raised.
RECURSIVE NormalizeLoop(_, _, _, _)
NormalizeLoop(cls, rest, subqs, seenterms) ==
    IF rest = <<>> THEN [cls |-> "list", items |-> subqs]
    ELSE LET s == Normalize(Head(rest)) IN
         IF IsError(s) THEN s
         ELSE IF s.cls = "NullQuery"
              THEN NormalizeLoop(cls, Tail(rest), subqs, seenterms)
         ELSE IF s.cls = "Term" /\ <<s.fieldname, s.text>> \in seenterms
              THEN NormalizeLoop(cls, Tail(rest), subqs, seenterms)
         ELSE LET seen2 == IF s.cls = "Term"
                           THEN seenterms \cup {<<s.fieldname, s.text>>}
                           ELSE seenterms
              IN IF s.cls = cls
                 THEN NormalizeLoop(cls, Tail(rest), subqs \o s.subqueries,
                                    seen2)
                 ELSE NormalizeLoop(cls, Tail(rest), Append(subqs, s), seen2)

\* CompoundQuery.normalize without the unwrapping of a single subquery
CompoundNormalizeKeepsSingle(self) ==
    LET subqueries == SelectSeq(self.subqueries,
                                LAMBDA x : x.cls # "NullQuery")
    IN IF subqueries = <<>> THEN NullQuery
       ELSE LET r == NormalizeLoop(self.cls, subqueries, <<>>, {}) IN
            IF IsError(r) THEN r
            ELSE IF r.items = <<>> THEN NullQuery
            ELSE NewCompound(self.cls, r.items, self.boost)

CompoundNormalize(self) ==
    LET subqueries == SelectSeq(self.subqueries,
                                LAMBDA x : x.cls # "NullQuery")
    IN IF subqueries = <<>> THEN NullQuery
       ELSE LET r == NormalizeLoop(self.cls, subqueries, <<>>, {}) IN
            IF IsError(r) THEN r
            ELSE IF r.items = <<>> THEN NullQuery
            ELSE IF Len(r.items) = 1 THEN r.items[1]
            ELSE NewCompound(self.cls, r.items, self.boost)

OrNormalize(self) ==
    LET norm == CompoundNormalize(self) IN
    IF norm.cls = self.cls THEN [norm EXCEPT !.minmatch = self.minmatch]
    ELSE norm

DisjunctionMaxNormalize(self) ==
    LET norm == CompoundNormalize(self) IN
    IF norm.cls = self.cls THEN [norm EXCEPT !.tiebreak = self.tiebreak]
    ELSE norm

NotNormalize(self) ==
    LET query == Normalize(self.query) IN
    IF IsError(query) THEN query
    ELSE IF query.cls = "NullQuery" THEN NullQuery
    ELSE Not(query, self.boost)

WildcardNormalize(self) ==
    LET text == self.text IN
    IF text = <<Star>> THEN Every({"boost"})
    ELSE IF ~Contains(text, Star) /\ ~Contains(text, Qm)
         THEN Term(self.fieldname, self.text, self.boost)
    ELSE IF /\ ~Contains(text, Qm)
            /\ EndsWith(text, Star)
            /\ Find(text, Star) = Len(text) - 1
            /\ (Len(text) < 2 \/ text[Len(text) - 1] # Backslash)
         THEN Prefix(self.fieldname, SubSeq(text, 1, Len(text) - 1),
                     self.boost)
    ELSE self

TermRangeNormalize(self) ==
    IF self.start = self.end
    THEN Term(self.fieldname, self.start, self.boost)
    ELSE TermRange(self.fieldname, self.start, self.end, self.startexcl,
                   self.endexcl, self.boost)

PhraseNormalize(self) ==
    IF self.words = <<>> THEN NullQuery
    ELSE IF Len(self.words) = 1 THEN Term(self.fieldname, self.words[1], 1)
    ELSE Phrase(self.fieldname,
                SelectSeq(self.words, LAMBDA w : w # NoneWord),
                self.slop, self.boost)

\* NullQuery in subqueries: list membership compares by identity, then by
\* ==, and no __eq__ of query.py holds between NullQuery and another object.
RequireNormalize(self) ==
    LET s1 == Normalize(self.subqueries[1])
        s2 == IF IsError(s1) THEN s1 ELSE Normalize(self.subqueries[2])
    IN IF IsError(s1) THEN s1
       ELSE IF IsError(s2) THEN s2
       ELSE IF s1.cls = "NullQuery" \/ s2.cls = "NullQuery" THEN NullQuery
       ELSE Require(s1, s2, self.boost)

AndMaybeNormalize(self) ==
    LET required == Normalize(self.subqueries[1])
        optional == IF IsError(required) THEN required
                    ELSE Normalize(self.subqueries[2])
    IN IF IsError(required) THEN required
       ELSE IF IsError(optional) THEN optional
       ELSE IF required.cls = "NullQuery" THEN NullQuery
       ELSE IF optional.cls = "NullQuery" THEN required
       ELSE AndMaybe(required, optional, self.boost)

AndNotNormalize(self) ==
    LET pos == Normalize(self.positive)
        neg == IF IsError(pos) THEN pos ELSE Normalize(self.negative)
    IN IF IsError(pos) THEN pos
       ELSE IF IsError(neg) THEN neg
       ELSE IF pos.cls = "NullQuery" THEN NullQuery
       ELSE IF neg.cls = "NullQuery" THEN pos
       ELSE AndNot(pos, neg, self.boost)

\* Method resolution of normalize: Term, Prefix, Every (and the other
\* classes without an override) inherit Query.normalize, which returns self.
Normalize(self) ==
    CASE self.cls = "And" -> CompoundNormalize(self)
      [] self.cls = "Or" -> OrNormalize(self)
      [] self.cls = "DisjunctionMax" -> DisjunctionMaxNormalize(self)
      [] self.cls = "Not" -> NotNormalize(self)
      [] self.cls = "Wildcard" -> WildcardNormalize(self)
      [] self.cls = "TermRange" -> TermRangeNormalize(self)
      [] self.cls = "Phrase" -> PhraseNormalize(self)
      [] self.cls = "Require" -> RequireNormalize(self)
      [] self.cls = "AndMaybe" -> AndMaybeNormalize(self)
      [] self.cls = "AndNot" -> AndNotNormalize(self)
      [] OTHER -> self

----------------------------------------------------------------------------
(* Building query trees, and normalizing them                              *)

StartLeaves ==
    {Term(F, TA, 1), Term(F, TB, 1), Term(F, TA, 2), NullQuery,
     And(<<>>, 1),
     Phrase(F, <<>>, 1, 1), Phrase(F, <<TA>>, 1, 2),
     Phrase(F, <<TA, TB>>, 1, 1), Phrase(F, <<NoneWord, TA>>, 1, 1),
     TermRange(F, TA, TA, FALSE, FALSE, 1),
     TermRange(F, TA, TB, FALSE, TRUE, 1),
     Wildcard(F, TA, 1), Wildcard(F, <<"a", Star>>, 1),
     Wildcard(F, <<"a", Star, "b">>, 1), Wildcard(F, <<Star>>, 1)}

Siblings == {Term(F, TA, 1), NullQuery}

BinaryClasses == {"Require", "AndMaybe", "AndNot"}
MinMatches == {0, 2}

\* Children lists that hold x, alone or beside one sibling
ChildLists(x) ==
    {<<x>>} \cup {<<x, s>> : s \in Siblings} \cup {<<s, x>> : s \in Siblings}

NewBinary(cls, x, y) ==
    CASE cls = "Require" -> Require(x, y, 1)
      [] cls = "AndMaybe" -> AndMaybe(x, y, 1)
      [] OTHER -> AndNot(x, y, 1)

InitNorm ==
    /\ pc = "build"
    /\ q \in StartLeaves
    /\ q2 = NullQuery
    /\ depth = 0
    /\ res = NullQuery
    /\ res2 = NullQuery
    /\ deleted = {}
    /\ post = <<>>
    /\ terms = {}
    /\ readers = <<>>
    /\ heap = <<>>
    /\ field = <<>>
    /\ frame = <<>>
    /\ doc_offsets = <<>>
    /\ base = 0

WrapAnd ==
    /\ pc = "build"
    /\ depth < MaxDepth
    /\ \E kids \in ChildLists(q) : q' = And(kids, 1)
    /\ depth' = depth + 1
    /\ UNCHANGED <<pc, q2, res, res2, deleted, post, terms, readers, heap, field, frame,
                 doc_offsets, base>>

WrapOr ==
    /\ pc = "build"
    /\ depth < MaxDepth
    /\ \E kids \in ChildLists(q), mm \in MinMatches : q' = Or(kids, 1, mm)
    /\ depth' = depth + 1
    /\ UNCHANGED <<pc, q2, res, res2, deleted, post, terms, readers, heap, field, frame,
                 doc_offsets, base>>

WrapDisjunctionMax ==
    /\ pc = "build"
    /\ depth < MaxDepth
    /\ \E kids \in ChildLists(q) : q' = DisjunctionMax(kids, 1, 1)
    /\ depth' = depth + 1
    /\ UNCHANGED <<pc, q2, res, res2, deleted, post, terms, readers, heap, field, frame,
                 doc_offsets, base>>

WrapNot ==
    /\ pc = "build"
    /\ depth < MaxDepth
    /\ q' = Not(q, 1)
    /\ depth' = depth + 1
    /\ UNCHANGED <<pc, q2, res, res2, deleted, post, terms, readers, heap, field, frame,
                 doc_offsets, base>>

WrapBinary ==
    /\ pc = "build"
    /\ depth < MaxDepth
    /\ \E cls \in BinaryClasses, s \in Siblings :
          q' \in {NewBinary(cls, q, s), NewBinary(cls, s, q)}
    /\ depth' = depth + 1
    /\ UNCHANGED <<pc, q2, res, res2, deleted, post, terms, readers, heap, field, frame,
                 doc_offsets, base>>

\* q.normalize()
NormalizeOnce ==
    /\ pc = "build"
    /\ res' = Normalize(q)
    /\ pc' = "normalized"
    /\ UNCHANGED <<q, q2, depth, res2, deleted, post, terms, readers, heap, field, frame,
                 doc_offsets, base>>

\* q.normalize().normalize()
NormalizeAgain ==
    /\ pc = "normalized"
    /\ ~IsError(res)
    /\ res2' = Normalize(res)
    /\ pc' = "renormalized"
    /\ UNCHANGED <<q, q2, depth, res, deleted, post, terms, readers, heap, field, frame,
                 doc_offsets, base>>

NextNorm ==
    \/ WrapAnd
    \/ WrapOr
    \/ WrapDisjunctionMax
    \/ WrapNot
    \/ WrapBinary
    \/ NormalizeOnce
    \/ NormalizeAgain

SpecNorm == InitNorm /\ [][NextNorm]_vars

----------------------------------------------------------------------------
(* Properties of normalize                                                 *)

\* The direct children of a node, whatever attribute holds them
Children(x) ==
    CASE x.cls \in {"And", "Or", "DisjunctionMax", "Require", "AndMaybe"} ->
            x.subqueries
      [] x.cls = "Not" -> <<x.query>>
      [] x.cls = "AndNot" -> <<x.positive, x.negative>>
      [] OTHER -> <<>>

ChildSet(x) == {Children(x)[i] : i \in 1..Len(Children(x))}

NodeInNormalForm(x) ==
    /\ x.cls \in {"And", "Or", "DisjunctionMax", "Require", "AndMaybe"} =>
          /\ x.subqueries # <<>>
          /\ \A c \in ChildSet(x) : c.cls # "NullQuery"
    /\ x.cls \in {"And", "Or"} =>
          /\ Len(x.subqueries) # 1
          /\ \A c \in ChildSet(x) : c.cls # x.cls

RECURSIVE TreeInNormalForm(_)
TreeInNormalForm(x) ==
    NodeInNormalForm(x) /\ \A c \in ChildSet(x) : TreeInNormalForm(c)

NodeHasNoDuplicateTerm(x) ==
    x.cls \in {"And", "Or"} =>
        \A i, j \in 1..Len(x.subqueries) :
            (/\ i # j
             /\ x.subqueries[i].cls = "Term"
             /\ x.subqueries[j].cls = "Term")
            => <<x.subqueries[i].fieldname, x.subqueries[i].text>>
               # <<x.subqueries[j].fieldname, x.subqueries[j].text>>

RECURSIVE TreeHasNoDuplicateTerm(_)
TreeHasNoDuplicateTerm(x) ==
    NodeHasNoDuplicateTerm(x) /\ \A c \in ChildSet(x) : TreeHasNoDuplicateTerm(c)

\* C1: normalizing a normalized query returns a structurally equal query.
NormalizeIdempotent == pc = "renormalized" => res2 = res

\* C2: the result of normalize has no empty compound, no NullQuery child of
\* a compound, no single-child And/Or and no And (Or) directly inside an
\* And (Or).
NormalizeGivesNormalForm ==
    (pc = "normalized" /\ ~IsError(res)) => TreeInNormalForm(res)

\* An And/Or that was not in normal form has been normalized to an And/Or.
NormalFormWitness ==
    /\ pc = "normalized"
    /\ q.cls \in {"And", "Or"}
    /\ \E c \in ChildSet(q) : c.cls = q.cls
    /\ \E c \in ChildSet(q) : c.cls = "NullQuery"
    /\ res.cls = q.cls
    /\ TreeInNormalForm(res)

\* C3: after normalize no And/Or has two direct Term children with the same
\* (fieldname, text).
NormalizeCoalescesTerms ==
    (pc = "normalized" /\ ~IsError(res)) => TreeHasNoDuplicateTerm(res)

----------------------------------------------------------------------------
(* Wildcard.normalize on every glob of at most MaxLen characters           *)

WildChars == {"a", "b", Star, Qm, Backslash}

RECURSIVE TextsOfLen(_)
TextsOfLen(n) ==
    IF n = 0 THEN {<<>>}
    ELSE {Append(t, ch) : t \in TextsOfLen(n - 1), ch \in WildChars}

Globs == UNION {TextsOfLen(n) : n \in 0..MaxLen}

Boosts == {1, 2}

InitWild ==
    /\ pc = "wildcard"
    /\ \E text \in Globs, boost \in Boosts : q = Wildcard(F, text, boost)
    /\ q2 = NullQuery
    /\ depth = 0
    /\ res = NullQuery
    /\ res2 = NullQuery
    /\ deleted = {}
    /\ post = <<>>
    /\ terms = {}
    /\ readers = <<>>
    /\ heap = <<>>
    /\ field = <<>>
    /\ frame = <<>>
    /\ doc_offsets = <<>>
    /\ base = 0

\* Wildcard(fieldname, text, boost).normalize()
NormalizeWildcard ==
    /\ pc = "wildcard"
    /\ res' = Normalize(q)
    /\ pc' = "wildcardnormalized"
    /\ UNCHANGED <<q, q2, depth, res2, deleted, post, terms, readers, heap, field, frame,
                 doc_offsets, base>>

NextWild == NormalizeWildcard

SpecWild == InitWild /\ [][NextWild]_vars

IsMeta(ch) == ch \in {Star, Qm}

MetaPositions(text) == {i \in 1..Len(text) : IsMeta(text[i])}

\* C4: Wildcard.normalize gives Every for "*", Term for a text without
\* metacharacter, Prefix for a text whose only metacharacter is one trailing
\* '*', and the Wildcard itself otherwise.
WildcardNormalizeCases ==
    pc = "wildcardnormalized" =>
        LET text == q.text IN
        IF text = <<Star>> THEN res.cls = "Every"
        ELSE IF MetaPositions(text) = {}
             THEN res = Term(q.fieldname, text, q.boost)
        ELSE IF MetaPositions(text) = {Len(text)} /\ text[Len(text)] = Star
             THEN res = Prefix(q.fieldname, SubSeq(text, 1, Len(text) - 1),
                               q.boost)
        ELSE res = q

----------------------------------------------------------------------------
(* __eq__                                                                  *)

Bool(v) == [cls |-> "bool", val |-> v]

RECURSIVE PyEq(_, _)

\* list.__eq__ on two lists of queries: unequal lengths are unequal, else the
\* items are compared in order until one pair differs (or raises).
RECURSIVE ListEq(_, _)
ListEq(xs, ys) ==
    IF Len(xs) # Len(ys) THEN Bool(FALSE)
    ELSE IF xs = <<>> THEN Bool(TRUE)
    ELSE LET e == PyEq(Head(xs), Head(ys)) IN
         IF IsError(e) THEN e
         ELSE IF ~e.val THEN Bool(FALSE)
         ELSE ListEq(Tail(xs), Tail(ys))

\* x and y, where x is an already evaluated comparison
AndThen(x, y) == IF IsError(x) THEN x ELSE IF ~x.val THEN x ELSE y

TermEq(self, other) ==
    Bool(/\ self.cls = other.cls
         /\ self.fieldname = other.fieldname
         /\ self.text = other.text
         /\ self.boost = other.boost)

CompoundEq(self, other) ==
    IF self.cls # other.cls THEN Bool(FALSE)
    ELSE AndThen(ListEq(self.subqueries, other.subqueries),
                 Bool(self.boost = other.boost))

NotEq(self, other) ==
    IF self.cls # other.cls THEN Bool(FALSE)
    ELSE PyEq(self.query, other.query)

TermRangeEq(self, other) ==
    Bool(/\ self.cls = other.cls
         /\ self.fieldname = other.fieldname
         /\ self.start = other.start
         /\ self.end = other.end
         /\ self.startexcl = other.startexcl
         /\ self.endexcl = other.endexcl
         /\ self.boost = other.boost)

\* other.word: a Phrase has no attribute word
PhraseEq(self, other) ==
    IF self.cls # other.cls THEN Bool(FALSE)
    ELSE IF self.fieldname # other.fieldname THEN Bool(FALSE)
    ELSE Raise("AttributeError")

\* self.boost: an Every has no attribute boost
EveryEq(self, other) ==
    IF self.cls # other.cls THEN Bool(FALSE)
    ELSE Raise("AttributeError")

AndNotEq(self, other) ==
    IF self.cls # other.cls THEN Bool(FALSE)
    ELSE AndThen(PyEq(self.positive, other.positive),
                 AndThen(PyEq(self.negative, other.negative),
                         Bool(self.boost = other.boost)))

\* The __eq__ method of a class; NullQuery defines none.
HasEq(x) == x.cls # "NullQuery"

MethodEq(self, other) ==
    CASE self.cls \in {"Term", "Prefix", "Wildcard"} -> TermEq(self, other)
      [] self.cls \in {"And", "Or", "DisjunctionMax", "Require", "AndMaybe"} ->
            CompoundEq(self, other)
      [] self.cls = "Not" -> NotEq(self, other)
      [] self.cls = "TermRange" -> TermRangeEq(self, other)
      [] self.cls = "Phrase" -> PhraseEq(self, other)
      [] self.cls = "Every" -> EveryEq(self, other)
      [] self.cls = "AndNot" -> AndNotEq(self, other)

\* a == b: a.__eq__(b); when a's class has no __eq__, the reflected
\* b.__eq__(a); when neither has, identity (NullQuery is a singleton).
PyEq(a, b) ==
    IF HasEq(a) THEN MethodEq(a, b)
    ELSE IF HasEq(b) THEN MethodEq(b, a)
    ELSE Bool(TRUE)

TermA == Term(F, TA, 1)
TermB == Term(F, TB, 1)

EqOperands ==
    {TermA, TermB, Term(F, TA, 2), Term("g", TA, 1), NullQuery, Every({}),
     Prefix(F, TA, 1), Wildcard(F, <<"a", Star, "b">>, 1),
     And(<<TermA, TermB>>, 1), And(<<TermB, TermA>>, 1),
     And(<<TermA, TermB>>, 2), And(<<TermA>>, 1),
     Or(<<TermA, TermB>>, 1, 0), Or(<<TermA, TermB>>, 1, 2),
     DisjunctionMax(<<TermA, TermB>>, 1, 0),
     DisjunctionMax(<<TermA, TermB>>, 1, 1),
     Not(TermA, 1), Not(TermA, 2), Not(TermB, 1),
     TermRange(F, TA, TB, FALSE, FALSE, 1),
     TermRange(F, TA, TB, TRUE, FALSE, 1),
     Phrase(F, <<TA, TB>>, 1, 1), Phrase(F, <<TA, TB>>, 2, 1),
     Phrase("g", <<TA, TB>>, 1, 1),
     Require(TermA, TermB, 1), AndMaybe(TermA, TermB, 1),
     AndNot(TermA, TermB, 1), AndNot(TermA, TermB, 2),
     And(<<TermA, Not(TermB, 1)>>, 1), And(<<TermA, Not(TermB, 2)>>, 1)}

InitEq ==
    /\ pc = "operands"
    /\ q \in EqOperands
    /\ q2 \in EqOperands
    /\ depth = 0
    /\ res = NullQuery
    /\ res2 = NullQuery
    /\ deleted = {}
    /\ post = <<>>
    /\ terms = {}
    /\ readers = <<>>
    /\ heap = <<>>
    /\ field = <<>>
    /\ frame = <<>>
    /\ doc_offsets = <<>>
    /\ base = 0

\* q == q2
Compare ==
    /\ pc = "operands"
    /\ res' = PyEq(q, q2)
    /\ pc' = "compared"
    /\ UNCHANGED <<q, q2, depth, res2, deleted, post, terms, readers, heap, field, frame,
                 doc_offsets, base>>

NextEq == Compare

SpecEq == InitEq /\ [][NextEq]_vars

\* C5: a == b is defined for every pair of queries, and is true exactly when
\* a and b have the same variant, the same structural fields and the same
\* boost.
EqualityIsStructural == pc = "compared" => res = Bool(q = q2)

----------------------------------------------------------------------------
(* The reader: NumDocs documents, some deleted, and the posting lists of   *)
(* the terms of field F                                                    *)

DocNums == 0..(NumDocs - 1)

Lexicon == {TA, TB}

doc_count_all == NumDocs

doc_count == NumDocs - Cardinality(deleted)

\* (fieldname, text) in reader
InReader(fieldname, text) ==
    fieldname = F /\ text \in DOMAIN post /\ post[text] # {}

doc_frequency(fieldname, text) ==
    IF InReader(fieldname, text) THEN Cardinality(post[text]) ELSE 0

\* A matcher is the ascending sequence of the doc ids it yields.
Matcher(ids) == [cls |-> "Matcher", ids |-> ids]

IdSet(m) == {m.ids[i] : i \in 1..Len(m.ids)}

RECURSIVE Ascending(_)
Ascending(S) ==
    IF S = {} THEN <<>>
    ELSE LET m == CHOOSE x \in S : \A y \in S : x <= y
         IN <<m>> \o Ascending(S \ {m})

\* FilterMatcher(matcher, ids, exclude=True)
FilterMatcher(m, ids) == Matcher(SelectSeq(m.ids, LAMBDA d : d \notin ids))

\* SegmentReader.postings: the posting list without the deleted documents
ReaderPostings(fieldname, text) ==
    IF ~InReader(fieldname, text) THEN Raise("TermNotFound")
    ELSE FilterMatcher(Matcher(Ascending(post[text])), deleted)

\* searcher.postings(fieldnum, text, exclude_docs=...)
SearcherPostings(fieldname, text, exclude_docs) ==
    LET m == ReaderPostings(fieldname, text) IN
    IF IsError(m) THEN m ELSE FilterMatcher(m, exclude_docs)

----------------------------------------------------------------------------
(* The matcher combinators (whoosh.matching)                               *)

NullMatcher == Matcher(<<>>)

\* skip_to: advance past all ids below target
RECURSIVE SkipTo(_, _)
SkipTo(ids, target) ==
    IF ids = <<>> THEN <<>>
    ELSE IF Head(ids) >= target THEN ids
    ELSE SkipTo(Tail(ids), target)

RECURSIVE IntersectIds(_, _)
IntersectIds(a, b) ==
    IF a = <<>> \/ b = <<>> THEN <<>>
    ELSE IF Head(a) = Head(b)
         THEN <<Head(a)>> \o IntersectIds(Tail(a), Tail(b))
    ELSE IF Head(a) < Head(b) THEN IntersectIds(SkipTo(a, Head(b)), b)
    ELSE IntersectIds(a, SkipTo(b, Head(a)))

RECURSIVE UnionIds(_, _)
UnionIds(a, b) ==
    IF a = <<>> THEN b
    ELSE IF b = <<>> THEN a
    ELSE IF Head(a) = Head(b)
         THEN <<Head(a)>> \o UnionIds(Tail(a), Tail(b))
    ELSE IF Head(a) < Head(b) THEN <<Head(a)>> \o UnionIds(Tail(a), b)
    ELSE <<Head(b)>> \o UnionIds(a, Tail(b))

IntersectionMatcher(a, b) == Matcher(IntersectIds(a.ids, b.ids))

UnionMatcher(a, b) == Matcher(UnionIds(a.ids, b.ids))

DisjunctionMaxMatcher(a, b) == Matcher(UnionIds(a.ids, b.ids))

RequireMatcher(a, b) == Matcher(IntersectIds(a.ids, b.ids))

AndMaybeMatcher(a, b) == Matcher(a.ids)

\* The boost changes the weights only
WrappingMatcher(child, boost) == Matcher(child.ids)

RECURSIVE InverseIds(_, _, _, _)
InverseIds(child, d, limit, missing) ==
    IF d >= limit THEN <<>>
    ELSE LET rest == SkipTo(child, d) IN
         IF d \in missing \/ (rest # <<>> /\ Head(rest) = d)
         THEN InverseIds(rest, d + 1, limit, missing)
         ELSE <<d>> \o InverseIds(rest, d + 1, limit, missing)

InverseMatcher(child, limit, missing) ==
    Matcher(InverseIds(child.ids, 0, limit, missing))

EveryMatcher(limit, exclude) ==
    Matcher(SelectSeq(Ascending(0..(limit - 1)), LAMBDA d : d \notin exclude))

BinaryMatcher(matchercls, a, b) ==
    CASE matchercls = "IntersectionMatcher" -> IntersectionMatcher(a, b)
      [] matchercls = "UnionMatcher" -> UnionMatcher(a, b)
      [] matchercls = "DisjunctionMaxMatcher" -> DisjunctionMaxMatcher(a, b)

RECURSIVE make_tree(_, _)
make_tree(matchercls, matchers) ==
    IF matchers = <<>> THEN NullMatcher
    ELSE IF Len(matchers) = 1 THEN matchers[1]
    ELSE LET half == Len(matchers) \div 2 IN
         BinaryMatcher(matchercls,
                       make_tree(matchercls, SubSeq(matchers, 1, half)),
                       make_tree(matchercls,
                                 SubSeq(matchers, half + 1, Len(matchers))))

----------------------------------------------------------------------------
(* estimate_size, matcher and docs of the query classes                    *)

IntVal(n) == [cls |-> "int", val |-> n]

List(items) == [cls |-> "list", items |-> items]

BitVector(bits) == [cls |-> "BitVector", bits |-> bits]

\* exclude_docs=None
None == {}

RECURSIVE EstimateSize(_)
RECURSIVE QueryMatcher(_, _)
RECURSIVE QueryDocs(_, _)
RECURSIVE MultiTermMatcher(_, _)
RECURSIVE PhraseMatcher(_, _)

\* [q.estimate_size(ixreader) for q in subqueries]
RECURSIVE EstimateAll(_)
EstimateAll(subqueries) ==
    IF subqueries = <<>> THEN List(<<>>)
    ELSE LET e == EstimateSize(Head(subqueries)) IN
         IF IsError(e) THEN e
         ELSE LET rest == EstimateAll(Tail(subqueries)) IN
              IF IsError(rest) THEN rest
              ELSE List(<<e.val>> \o rest.items)

SeqMin(xs) == CHOOSE m \in {xs[i] : i \in 1..Len(xs)} :
                  \A i \in 1..Len(xs) : m <= xs[i]

RECURSIVE SeqSum(_)
SeqSum(xs) == IF xs = <<>> THEN 0 ELSE Head(xs) + SeqSum(Tail(xs))

TermEstimateSize(self) == IntVal(doc_frequency(self.fieldname, self.text))

\* min() of an empty sequence raises ValueError
AndEstimateSize(self) ==
    LET sizes == EstimateAll(self.subqueries) IN
    IF IsError(sizes) THEN sizes
    ELSE IF sizes.items = <<>> THEN Raise("ValueError")
    ELSE IntVal(SeqMin(sizes.items))

OrEstimateSize(self) ==
    LET sizes == EstimateAll(self.subqueries) IN
    IF IsError(sizes) THEN sizes ELSE IntVal(SeqSum(sizes.items))

NotEstimateSize(self) == IntVal(doc_count)

\* Method resolution of estimate_size: Require, AndMaybe and AndNot define
\* none and inherit Query.estimate_size, which raises NotImplementedError.
\* A matcher object has no estimate_size attribute.
EstimateSize(self) ==
    CASE self.cls = "Term" -> TermEstimateSize(self)
      [] self.cls = "And" -> AndEstimateSize(self)
      [] self.cls \in {"Or", "DisjunctionMax"} -> OrEstimateSize(self)
      [] self.cls \in {"Not", "Every"} -> NotEstimateSize(self)
      [] self.cls = "NullQuery" -> IntVal(0)
      [] self.cls \in {"Require", "AndMaybe", "AndNot"} ->
            Raise("NotImplementedError")
      [] self.cls = "Matcher" -> Raise("AttributeError")

RemoveAt(xs, i) == SubSeq(xs, 1, i - 1) \o SubSeq(xs, i + 1, Len(xs))

\* list.sort(key=...) is stable: among equal keys the earlier item stays first
RECURSIVE StableSort(_, _)
StableSort(items, keys) ==
    IF items = <<>> THEN <<>>
    ELSE LET i == CHOOSE i \in 1..Len(keys) :
                      /\ \A j \in 1..Len(keys) : keys[i] <= keys[j]
                      /\ \A j \in 1..(i - 1) : keys[j] > keys[i]
         IN <<items[i]>> \o StableSort(RemoveAt(items, i), RemoveAt(keys, i))

split_queries(self) ==
    [subs |-> SelectSeq(self.subqueries, LAMBDA x : x.cls # "Not"),
     nots |-> LET ns == SelectSeq(self.subqueries, LAMBDA x : x.cls = "Not")
              IN [i \in 1..Len(ns) |-> ns[i].query]]

\* The loop of _not_vector: set the docs of each notquery in nvector
RECURSIVE not_vector_loop(_, _)
not_vector_loop(notqueries, nvector) ==
    IF notqueries = <<>> THEN BitVector(nvector)
    ELSE LET docs == QueryDocs(Head(notqueries), None) IN
         IF IsError(docs) THEN docs
         ELSE not_vector_loop(Tail(notqueries), nvector \cup IdSet(docs))

not_vector(notqueries, sourcevector) ==
    not_vector_loop(notqueries, sourcevector)

\* [subquery.matcher(searcher, exclude_docs=exclude_docs) for subquery in subs]
RECURSIVE MatcherAll(_, _)
MatcherAll(subs, exclude_docs) ==
    IF subs = <<>> THEN List(<<>>)
    ELSE LET m == QueryMatcher(Head(subs), exclude_docs) IN
         IF IsError(m) THEN m
         ELSE LET rest == MatcherAll(Tail(subs), exclude_docs) IN
              IF IsError(rest) THEN rest
              ELSE List(<<m>> \o rest.items)

submatchers(self, exclude_docs) ==
    LET sq == split_queries(self)
        nvector == not_vector(sq.nots, exclude_docs)
    IN IF IsError(nvector) THEN nvector
       ELSE LET keys == EstimateAll(sq.subs) IN
            IF IsError(keys) THEN keys
            ELSE MatcherAll(StableSort(sq.subs, keys.items), nvector.bits)

CompoundMatcher(self, matchercls, exclude_docs) ==
    LET subs == submatchers(self, exclude_docs) IN
    IF IsError(subs) THEN subs
    ELSE LET tree == make_tree(matchercls, subs.items) IN
         IF self.boost = 1 THEN tree ELSE WrappingMatcher(tree, self.boost)

TermMatcher(self, exclude_docs) ==
    LET m == SearcherPostings(self.fieldname, self.text, exclude_docs) IN
    IF m.cls = "TermNotFound" THEN NullMatcher ELSE m

\* And.matcher with UnionMatcher in place of IntersectionMatcher
AndMatcherUnion(self, exclude_docs) ==
    CompoundMatcher(self, "UnionMatcher", exclude_docs)

AndMatcher(self, exclude_docs) ==
    CompoundMatcher(self, "IntersectionMatcher", exclude_docs)

OrMatcher(self, exclude_docs) ==
    CompoundMatcher(self, "UnionMatcher", exclude_docs)

DisjunctionMaxMatcherOf(self, exclude_docs) ==
    CompoundMatcher(self, "DisjunctionMaxMatcher", exclude_docs)

\* Not.matcher with doc_count() in place of doc_count_all()
NotMatcherLiveCount(self, exclude_docs) ==
    LET child == QueryMatcher(self.query, None) IN
    IF IsError(child) THEN child
    ELSE InverseMatcher(child, doc_count, deleted)

NotMatcher(self, exclude_docs) ==
    LET child == QueryMatcher(self.query, None) IN
    IF IsError(child) THEN child
    ELSE InverseMatcher(child, doc_count_all, deleted)

EveryMatcherOf(self, exclude_docs) ==
    EveryMatcher(doc_count_all, exclude_docs)

RequireMatcherOf(self, exclude_docs) ==
    LET scored == QueryMatcher(self.subqueries[1], exclude_docs) IN
    IF IsError(scored) THEN scored
    ELSE LET required == QueryMatcher(self.subqueries[2], exclude_docs) IN
         IF IsError(required) THEN required
         ELSE RequireMatcher(scored, required)

AndMaybeMatcherOf(self, exclude_docs) ==
    LET required == QueryMatcher(self.subqueries[1], exclude_docs) IN
    IF IsError(required) THEN required
    ELSE LET optional == QueryMatcher(self.subqueries[2], exclude_docs) IN
         IF IsError(optional) THEN optional
         ELSE AndMaybeMatcher(required, optional)

AndNotMatcher(self, exclude_docs) ==
    LET notvector == not_vector(<<self.negative>>, exclude_docs) IN
    IF IsError(notvector) THEN notvector
    ELSE QueryMatcher(self.positive, notvector.bits)

QueryMatcher(self, exclude_docs) ==
    CASE self.cls = "Term" -> TermMatcher(self, exclude_docs)
      [] self.cls = "And" -> AndMatcher(self, exclude_docs)
      [] self.cls = "Or" -> OrMatcher(self, exclude_docs)
      [] self.cls = "DisjunctionMax" ->
            DisjunctionMaxMatcherOf(self, exclude_docs)
      [] self.cls = "Not" -> NotMatcher(self, exclude_docs)
      [] self.cls = "Every" -> EveryMatcherOf(self, exclude_docs)
      [] self.cls = "NullQuery" -> NullMatcher
      [] self.cls = "Require" -> RequireMatcherOf(self, exclude_docs)
      [] self.cls = "AndMaybe" -> AndMaybeMatcherOf(self, exclude_docs)
      [] self.cls = "AndNot" -> AndNotMatcher(self, exclude_docs)
      [] self.cls \in {"Prefix", "Wildcard", "TermRange", "Variations"} ->
            MultiTermMatcher(self, exclude_docs)
      [] self.cls = "Phrase" -> PhraseMatcher(self, exclude_docs)

\* Query.docs: the ids of the matcher, [] when it raises TermNotFound
DefaultDocs(self, exclude_docs) ==
    LET m == QueryMatcher(self, exclude_docs) IN
    IF m.cls = "TermNotFound" THEN Matcher(<<>>) ELSE m

RequireDocs(self, exclude_docs) ==
    QueryDocs(And(self.subqueries, 1), exclude_docs)

AndMaybeDocs(self, exclude_docs) ==
    QueryDocs(self.subqueries[1], exclude_docs)

QueryDocs(self, exclude_docs) ==
    CASE self.cls = "NullQuery" -> Matcher(<<>>)
      [] self.cls = "Require" -> RequireDocs(self, exclude_docs)
      [] self.cls = "AndMaybe" -> AndMaybeDocs(self, exclude_docs)
      [] OTHER -> DefaultDocs(self, exclude_docs)

----------------------------------------------------------------------------
(* Composing two queries and running the result against a reader           *)

MatchOperands ==
    {TermA, TermB, Term(F, TC, 1), NullQuery, Every({}), Not(TermA, 1),
     Or(<<TermA, TermB>>, 1, 0), And(<<TermB, Not(TermA, 1)>>, 2)}

InitMatch ==
    /\ pc = "operands"
    /\ q \in MatchOperands
    /\ q2 \in MatchOperands
    /\ depth = 0
    /\ res = NullQuery
    /\ res2 = NullQuery
    /\ deleted \in SUBSET DocNums
    /\ post \in [Lexicon -> SUBSET DocNums]
    /\ terms = {}
    /\ readers = <<>>
    /\ heap = <<>>
    /\ field = <<>>
    /\ frame = <<>>
    /\ doc_offsets = <<>>
    /\ base = 0

ComposeAnd ==
    /\ pc = "operands"
    /\ q' = And(<<q, q2>>, 1)
    /\ pc' = "composed"
    /\ UNCHANGED <<q2, depth, res, res2, deleted, post, terms, readers, heap, field, frame,
                 doc_offsets, base>>

ComposeOr ==
    /\ pc = "operands"
    /\ \E minmatch \in 0..2 : q' = Or(<<q, q2>>, 1, minmatch)
    /\ pc' = "composed"
    /\ UNCHANGED <<q2, depth, res, res2, deleted, post, terms, readers, heap, field, frame,
                 doc_offsets, base>>

ComposeNot ==
    /\ pc = "operands"
    /\ q' = Not(q, 1)
    /\ pc' = "composed"
    /\ UNCHANGED <<q2, depth, res, res2, deleted, post, terms, readers, heap, field, frame,
                 doc_offsets, base>>

ComposeAndNot ==
    /\ pc = "operands"
    /\ q' = AndNot(q, q2, 1)
    /\ pc' = "composed"
    /\ UNCHANGED <<q2, depth, res, res2, deleted, post, terms, readers, heap, field, frame,
                 doc_offsets, base>>

ComposeRequire ==
    /\ pc = "operands"
    /\ q' = Require(q, q2, 1)
    /\ pc' = "composed"
    /\ UNCHANGED <<q2, depth, res, res2, deleted, post, terms, readers, heap, field, frame,
                 doc_offsets, base>>

\* q.matcher(searcher)
RunMatcher ==
    /\ pc = "composed"
    /\ res' = QueryMatcher(q, None)
    /\ pc' = "matched"
    /\ UNCHANGED <<q, q2, depth, res2, deleted, post, terms, readers, heap, field, frame,
                 doc_offsets, base>>

\* q.docs(searcher)
RunDocs ==
    /\ pc = "composed"
    /\ res' = QueryDocs(q, None)
    /\ pc' = "docs"
    /\ UNCHANGED <<q, q2, depth, res2, deleted, post, terms, readers, heap, field, frame,
                 doc_offsets, base>>

NextMatch ==
    \/ ComposeAnd
    \/ ComposeOr
    \/ ComposeNot
    \/ ComposeAndNot
    \/ ComposeRequire
    \/ RunMatcher
    \/ RunDocs

SpecMatch == InitMatch /\ [][NextMatch]_vars

\* ids(x): the doc ids x.matcher(searcher) yields
Ids(x) == IdSet(QueryMatcher(x, None))

\* C6: the matcher of And([A, B]), A and B Terms, yields ids(A) \cap ids(B).
AndIsIntersection ==
    (/\ pc = "matched"
     /\ q.cls = "And"
     /\ q.subqueries[1].cls = "Term"
     /\ q.subqueries[2].cls = "Term")
    => /\ ~IsError(res)
       /\ IdSet(res) = Ids(q.subqueries[1]) \cap Ids(q.subqueries[2])

\* And([A, B]) was matched with B the child of smaller estimate, and a
\* document of A is not in the result.
AndWitness ==
    /\ pc = "matched"
    /\ q.cls = "And"
    /\ q.subqueries[1].cls = "Term"
    /\ q.subqueries[2].cls = "Term"
    /\ EstimateSize(q.subqueries[2]).val < EstimateSize(q.subqueries[1]).val
    /\ IdSet(res) # {}
    /\ IdSet(res) # Ids(q.subqueries[1])

\* C7: the matcher of Not(A) yields the documents of [0, doc_count_all) that
\* are neither deleted nor in ids(A).
NotIsComplement ==
    (pc = "matched" /\ q.cls = "Not")
    => /\ ~IsError(res)
       /\ IdSet(res) = {d \in DocNums : d \notin deleted /\ d \notin Ids(q.query)}

\* Not(A) was matched on a reader with a deleted document, A matches some
\* document and Not(A) another.
NotWitness ==
    /\ pc = "matched"
    /\ q.cls = "Not"
    /\ deleted # {}
    /\ Ids(q.query) # {}
    /\ IdSet(res) # {}

\* C8: the matcher of AndNot(X, Y) yields ids(X) \ ids(Y).
AndNotIsDifference ==
    (pc = "matched" /\ q.cls = "AndNot")
    => /\ ~IsError(res)
       /\ IdSet(res) = Ids(q.positive) \ Ids(q.negative)

\* C9: Require(X, Y).matcher and Require(X, Y).docs both yield the doc ids
\* of And([X, Y]).
RequireIsAnd ==
    (pc \in {"matched", "docs"} /\ q.cls = "Require")
    => /\ ~IsError(res)
       /\ IdSet(res) = Ids(And(q.subqueries, 1))

\* C10: the matcher of an Or with minmatch = k > 0 yields the documents
\* that at least k of its subqueries match.
OrHonoursMinMatch ==
    (pc = "matched" /\ q.cls = "Or" /\ q.minmatch > 0)
    => /\ ~IsError(res)
       /\ IdSet(res) =
            {d \in DocNums :
                Cardinality({i \in 1..Len(q.subqueries) :
                                d \in Ids(q.subqueries[i])}) >= q.minmatch}

----------------------------------------------------------------------------
(* The term dictionary of a reader: the set terms of (fieldname, text)     *)
(* pairs, read in lexicographic order                                      *)

G == "g"
TAB == <<"a", "b">>

\* ord() of the characters in use
Ord(ch) ==
    CASE ch = Star -> 42
      [] ch = Qm -> 63
      [] ch = Backslash -> 92
      [] ch = "a" -> 97
      [] ch = "b" -> 98
      [] ch = "c" -> 99
      [] ch = "e" -> 101
      [] ch = "f" -> 102
      [] ch = "g" -> 103

\* a < b on texts
TextLess(a, b) ==
    \E i \in 1..(Len(b)) :
        /\ \A j \in 1..(i - 1) : j <= Len(a) /\ a[j] = b[j]
        /\ (i > Len(a) \/ Ord(a[i]) < Ord(b[i]))

\* a < b on field names
FieldLess(a, b) == Ord(a) < Ord(b)

\* (f1, t1) < (f2, t2) on tuples
TermLess(s, t) ==
    FieldLess(s[1], t[1]) \/ (s[1] = t[1] /\ TextLess(s[2], t[2]))

\* text.startswith(prefix)
StartsWith(text, prefix) ==
    Len(prefix) <= Len(text) /\ SubSeq(text, 1, Len(prefix)) = prefix

\* The members of S in ascending order
RECURSIVE SortedTerms(_)
SortedTerms(S) ==
    IF S = {} THEN <<>>
    ELSE LET m == CHOOSE x \in S : \A y \in S : x = y \/ TermLess(x, y)
         IN <<m>> \o SortedTerms(S \ {m})

\* reader.all_terms()
all_terms == SortedTerms(terms)

\* term in reader
reader_contains(term) == term \in terms

\* SegmentReader.terms_from of a reader with dictionary dict: the
\* dictionary read from (fieldname, prefix)
ReaderTermsFrom(dict, fieldname, prefix) ==
    SelectSeq(SortedTerms(dict),
              LAMBDA t : ~TermLess(t, <<fieldname, prefix>>))

terms_from(fieldname, prefix) == ReaderTermsFrom(terms, fieldname, prefix)

\* The loop of expand_prefix over the remaining (fn, text) pairs
RECURSIVE expand_prefix_loop(_, _, _)
expand_prefix_loop(rest, fieldname, prefix) ==
    IF rest = <<>> THEN <<>>
    ELSE LET fn == Head(rest)[1]
             text == Head(rest)[2]
         IN IF fn # fieldname \/ ~StartsWith(text, prefix) THEN <<>>
            ELSE <<text>> \o expand_prefix_loop(Tail(rest), fieldname, prefix)

expand_prefix(fieldname, prefix) ==
    expand_prefix_loop(terms_from(fieldname, prefix), fieldname, prefix)

RECURSIVE lexicon_loop(_, _)
lexicon_loop(rest, fieldname) ==
    IF rest = <<>> THEN <<>>
    ELSE IF Head(rest)[1] # fieldname THEN <<>>
         ELSE <<Head(rest)[2]>> \o lexicon_loop(Tail(rest), fieldname)

lexicon(fieldname) == lexicon_loop(terms_from(fieldname, <<>>), fieldname)

\* ixreader.fieldname_to_num(fieldname): fields are numbered in the order
\* of their names, so the number stands for the name
fieldname_to_num(fieldname) == fieldname

\* ixreader.iter_from(fieldnum, text): (fieldnum, text, ...) for each term
\* from (fieldnum, text) on
iter_from(fieldnum, text) == terms_from(fieldnum, text)

----------------------------------------------------------------------------
(* Multi-term queries: their expansion against the reader, and simplify    *)

\* words is the value of variations(text) (whoosh.lang.morph_en)
Variations(fieldname, text, boost, words) ==
    [cls |-> "Variations", fieldname |-> fieldname, text |-> text,
     boost |-> boost, words |-> words]

FuzzyTerm(fieldname, text, boost, minsimilarity, prefixlength) ==
    IF text = <<>> THEN Raise("QueryError")
    ELSE [cls |-> "FuzzyTerm", fieldname |-> fieldname, text |-> text,
          boost |-> boost, minsimilarity |-> minsimilarity,
          prefixlength |-> prefixlength]

MultiTermClasses == {"Prefix", "Wildcard", "FuzzyTerm", "TermRange",
                     "Variations"}

\* Wildcard.__init__: the substring before the first wildcard character
WildcardPrefix(text) ==
    LET qm == Find(text, Qm)
        st == Find(text, Star)
    IN IF qm < 0 /\ st < 0 THEN <<>>
       ELSE IF qm < 0 THEN SubSeq(text, 1, st)
       ELSE IF st < 0 THEN SubSeq(text, 1, qm)
       ELSE SubSeq(text, 1, IF st < qm THEN st ELSE qm)

\* re.compile(fnmatch.translate(pat)).match(text)
RECURSIVE GlobMatch(_, _)
GlobMatch(pat, text) ==
    IF pat = <<>> THEN text = <<>>
    ELSE IF Head(pat) = Star
         THEN \/ GlobMatch(Tail(pat), text)
              \/ (text # <<>> /\ GlobMatch(pat, Tail(text)))
    ELSE IF Head(pat) = Qm
         THEN text # <<>> /\ GlobMatch(Tail(pat), Tail(text))
    ELSE text # <<>> /\ Head(text) = Head(pat)
         /\ GlobMatch(Tail(pat), Tail(text))

PrefixWords(self) == List(expand_prefix(self.fieldname, self.text))

WildcardWords(self) ==
    LET prefix == WildcardPrefix(self.text)
        candidates == IF prefix # <<>>
                      THEN expand_prefix(self.fieldname, prefix)
                      ELSE lexicon(self.fieldname)
    IN List(SelectSeq(candidates, LAMBDA text : GlobMatch(self.text, text)))

\* The loop of TermRange._words over the remaining (fnum, t, ...) tuples
RECURSIVE TermRangeWordsLoop(_, _, _)
TermRangeWordsLoop(rest, self, fieldnum) ==
    IF rest = <<>> THEN <<>>
    ELSE LET fnum == Head(rest)[1]
             t == Head(rest)[2]
         IN IF fnum # fieldnum THEN <<>>
            ELSE IF t = self.start /\ self.startexcl
                 THEN TermRangeWordsLoop(Tail(rest), self, fieldnum)
            ELSE IF t = self.end /\ self.endexcl THEN <<>>
            ELSE IF TextLess(self.end, t) THEN <<>>
            ELSE <<t>> \o TermRangeWordsLoop(Tail(rest), self, fieldnum)

\* TermRange._words reading the field from its first term instead of start
TermRangeWordsFromFirst(self) ==
    LET fieldnum == fieldname_to_num(self.fieldname) IN
    List(TermRangeWordsLoop(iter_from(fieldnum, <<>>), self, fieldnum))

TermRangeWords(self) ==
    LET fieldnum == fieldname_to_num(self.fieldname) IN
    List(TermRangeWordsLoop(iter_from(fieldnum, self.start), self, fieldnum))

VariationsWords(self) ==
    List(SelectSeq(self.words,
                   LAMBDA word : reader_contains(<<self.fieldname, word>>)))

\* Method resolution of _words: Phrase inherits MultiTerm._words
Words(self) ==
    CASE self.cls = "Prefix" -> PrefixWords(self)
      [] self.cls = "Wildcard" -> WildcardWords(self)
      [] self.cls = "TermRange" -> TermRangeWords(self)
      [] self.cls = "Variations" -> VariationsWords(self)
      [] self.cls = "Phrase" -> Raise("NotImplementedError")

RECURSIVE Simplify(_)

MultiTermSimplify(self) ==
    LET words == Words(self) IN
    IF IsError(words) THEN words
    ELSE Or([i \in 1..Len(words.items) |->
                Term(self.fieldname, words.items[i], self.boost)], 1, 0)

\* [subq.simplify(ixreader) for subq in subs]
RECURSIVE SimplifyAll(_)
SimplifyAll(subs) ==
    IF subs = <<>> THEN List(<<>>)
    ELSE LET s == Simplify(Head(subs)) IN
         IF IsError(s) THEN s
         ELSE LET rest == SimplifyAll(Tail(subs)) IN
              IF IsError(rest) THEN rest
              ELSE List(<<s>> \o rest.items)

\* self.__class__(subqs, boost=self.boost): Require and AndMaybe take two
\* positional queries, so the call lacks an argument
NewFromList(cls, subqs, boost) ==
    IF cls \in {"Require", "AndMaybe"} THEN Raise("TypeError")
    ELSE NewCompound(cls, subqs, boost)

\* Or(nots).normalize().simplify(): simplify is called without ixreader
SimplifyNots(nots) ==
    LET norm == Normalize(Or(nots, 1, 0)) IN
    IF IsError(norm) THEN norm ELSE Raise("TypeError")

CompoundSimplify(self) ==
    LET sq == split_queries(self) IN
    IF sq.subs # <<>>
    THEN LET simplified == SimplifyAll(sq.subs) IN
         IF IsError(simplified) THEN simplified
         ELSE LET subs == NewFromList(self.cls, simplified.items, self.boost)
              IN IF IsError(subs) THEN subs
                 ELSE IF sq.nots # <<>>
                      THEN LET nots == SimplifyNots(sq.nots) IN
                           IF IsError(nots) THEN nots
                           ELSE AndNot(subs, nots, 1)
                 ELSE subs
    ELSE NullQuery

\* Method resolution of simplify: Term, Not, AndNot and Every inherit
\* Query.simplify, which returns self
Simplify(self) ==
    CASE self.cls \in MultiTermClasses \cup {"Phrase"} ->
            MultiTermSimplify(self)
      [] self.cls \in {"And", "Or", "DisjunctionMax", "Require", "AndMaybe"} ->
            CompoundSimplify(self)
      [] OTHER -> self

----------------------------------------------------------------------------
(* Building query trees over a reader, and simplifying them                *)

SimplifyLeaves ==
    {Term(F, TA, 1), NullQuery, Every({}),
     Prefix(F, TA, 2), Wildcard(F, <<Qm>>, 1),
     TermRange(F, TA, TB, TRUE, FALSE, 1),
     Variations(F, TA, 1, <<TA, TB>>)}

TermDicts ==
    {{}, {<<F, TA>>, <<F, TAB>>, <<G, TA>>},
     {<<F, TA>>, <<F, TAB>>, <<F, TB>>, <<G, TB>>}}

InitSimplify ==
    /\ pc = "build"
    /\ q \in SimplifyLeaves
    /\ q2 = NullQuery
    /\ depth = 0
    /\ res = NullQuery
    /\ res2 = NullQuery
    /\ deleted = {}
    /\ post = <<>>
    /\ terms \in TermDicts
    /\ readers = <<>>
    /\ heap = <<>>
    /\ field = <<>>
    /\ frame = <<>>
    /\ doc_offsets = <<>>
    /\ base = 0

\* q.simplify(ixreader)
SimplifyOnce ==
    /\ pc = "build"
    /\ res' = Simplify(q)
    /\ pc' = "simplified"
    /\ UNCHANGED <<q, q2, depth, res2, deleted, post, terms, readers, heap, field, frame,
                 doc_offsets, base>>

NextSimplify ==
    \/ WrapAnd
    \/ WrapOr
    \/ WrapDisjunctionMax
    \/ WrapNot
    \/ WrapBinary
    \/ SimplifyOnce

SpecSimplify == InitSimplify /\ [][NextSimplify]_vars

RECURSIVE TreeHasNoMultiTerm(_)
TreeHasNoMultiTerm(x) ==
    /\ x.cls \notin MultiTermClasses
    /\ \A c \in ChildSet(x) : TreeHasNoMultiTerm(c)

\* The Or of Terms that replaces a multi-term node
Expansion(x) ==
    LET words == Words(x).items IN
    Or([i \in 1..Len(words) |-> Term(x.fieldname, words[i], x.boost)], 1, 0)

\* C11: q.simplify(reader) returns a tree in which no multi-term node
\* remains at any depth, and a multi-term q is replaced by the Or of the
\* Terms of its expansion against the reader.
SimplifyEliminatesMultiTerm ==
    pc = "simplified"
    => /\ ~IsError(res)
       /\ TreeHasNoMultiTerm(res)
       /\ q.cls \in MultiTermClasses => res = Expansion(q)

\* C12: simplify of an And / Or returns NullQuery when it has no positive
\* child, the same-variant compound of the simplified positives when it has
\* no negative child, and otherwise AndNot of that compound and the
\* simplified normalized Or of the negatives.
CompoundSimplifyCases ==
    (pc = "simplified" /\ q.cls \in {"And", "Or"})
    => LET sq == split_queries(q)
           positives == [i \in 1..Len(sq.subs) |-> Simplify(sq.subs[i])]
       IN IF sq.subs = <<>> THEN res = NullQuery
          ELSE /\ ~IsError(res)
               /\ IF sq.nots = <<>>
                  THEN res.cls = q.cls /\ res.subqueries = positives
                  ELSE /\ res.cls = "AndNot"
                       /\ res.positive.cls = q.cls
                       /\ res.positive.subqueries = positives
                       /\ res.negative = Simplify(Normalize(Or(sq.nots, 1, 0)))

----------------------------------------------------------------------------
(* Expanding a TermRange against every dictionary over a few terms         *)

E == "e"

RangeUniverse ==
    {<<E, TB>>, <<F, TA>>, <<F, TAB>>, <<F, TB>>, <<G, TA>>}

RangeEnds == {TA, TAB, TB, TC}

InitRange ==
    /\ pc = "range"
    /\ \E start \in RangeEnds, end \in RangeEnds,
          startexcl \in BOOLEAN, endexcl \in BOOLEAN :
          q = TermRange(F, start, end, startexcl, endexcl, 1)
    /\ q2 = NullQuery
    /\ depth = 0
    /\ res = NullQuery
    /\ res2 = NullQuery
    /\ deleted = {}
    /\ post = <<>>
    /\ terms \in SUBSET RangeUniverse
    /\ readers = <<>>
    /\ heap = <<>>
    /\ field = <<>>
    /\ frame = <<>>
    /\ doc_offsets = <<>>
    /\ base = 0

\* list(q._words(ixreader))
ExpandRange ==
    /\ pc = "range"
    /\ res' = TermRangeWords(q)
    /\ pc' = "expanded"
    /\ UNCHANGED <<q, q2, depth, res2, deleted, post, terms, readers, heap, field, frame,
                 doc_offsets, base>>

NextRange == ExpandRange

SpecRange == InitRange /\ [][NextRange]_vars

\* The texts of the interval of q that the dictionary holds for q's field
RangeTexts ==
    {t \in {u[2] : u \in {v \in terms : v[1] = q.fieldname}} :
        /\ ~TextLess(t, q.start)
        /\ ~TextLess(q.end, t)
        /\ q.startexcl => t # q.start
        /\ q.endexcl => t # q.end}

----------------------------------------------------------------------------
(* all_terms: the terms a query tree names                                 *)

\* Members of a termset: a (fieldname, text) tuple, or a bare text
Tuple(fieldname, text) ==
    [cls |-> "tuple", fieldname |-> fieldname, text |-> text]

Unicode(text) == [cls |-> "unicode", text |-> text]

SetOf(items) == [cls |-> "set", items |-> items]

RECURSIVE AllTerms(_, _, _)

\* for q in self.subqueries: q.all_terms(termset, phrases=phrases)
RECURSIVE AllTermsLoop(_, _, _)
AllTermsLoop(subqueries, termset, phrases) ==
    IF subqueries = <<>> THEN SetOf(termset)
    ELSE LET r == AllTerms(Head(subqueries), termset, phrases) IN
         IF IsError(r) THEN r
         ELSE AllTermsLoop(Tail(subqueries), r.items, phrases)

TermAllTerms(self, termset, phrases) ==
    SetOf(termset \cup {Tuple(self.fieldname, self.text)})

CompoundAllTerms(self, termset, phrases) ==
    AllTermsLoop(self.subqueries, termset, phrases)

NotAllTerms(self, termset, phrases) ==
    AllTerms(self.query, termset, phrases)

MultiTermAllTerms(self, termset, phrases) == SetOf(termset)

FuzzyTermAllTerms(self, termset, phrases) ==
    SetOf(termset \cup {Tuple(self.fieldname, self.text)})

VariationsAllTerms(self, termset, phrases) ==
    SetOf(termset \cup {Unicode(self.text)})

PhraseAllTerms(self, termset, phrases) ==
    IF phrases
    THEN SetOf(termset \cup {Tuple(self.fieldname, self.words[i]) :
                                i \in 1..Len(self.words)})
    ELSE SetOf(termset)

AndNotAllTerms(self, termset, phrases) ==
    AllTerms(self.positive, termset, phrases)

\* Query.all_terms calls self._all_terms; Every and NullQuery define none
AllTerms(self, termset, phrases) ==
    CASE self.cls = "Term" -> TermAllTerms(self, termset, phrases)
      [] self.cls \in {"And", "Or", "DisjunctionMax", "Require", "AndMaybe"} ->
            CompoundAllTerms(self, termset, phrases)
      [] self.cls = "Not" -> NotAllTerms(self, termset, phrases)
      [] self.cls \in {"Prefix", "Wildcard", "TermRange"} ->
            MultiTermAllTerms(self, termset, phrases)
      [] self.cls = "FuzzyTerm" -> FuzzyTermAllTerms(self, termset, phrases)
      [] self.cls = "Variations" -> VariationsAllTerms(self, termset, phrases)
      [] self.cls = "Phrase" -> PhraseAllTerms(self, termset, phrases)
      [] self.cls = "AndNot" -> AndNotAllTerms(self, termset, phrases)
      [] OTHER -> Raise("AttributeError")

TermsLeaves ==
    {Term(F, TA, 1), Term(G, TB, 1), NullQuery, Every({}),
     Prefix(F, TA, 1), Wildcard(F, <<"a", Star>>, 1),
     TermRange(F, TA, TB, FALSE, FALSE, 1),
     FuzzyTerm(F, TC, 1, 1, 1), Variations(F, TC, 1, <<TC>>),
     Phrase(F, <<TA, TB>>, 1, 1)}

InitTerms ==
    /\ pc = "build"
    /\ q \in TermsLeaves
    /\ q2 = NullQuery
    /\ depth = 0
    /\ res = NullQuery
    /\ res2 = NullQuery
    /\ deleted = {}
    /\ post = <<>>
    /\ terms = {}
    /\ readers = <<>>
    /\ heap = <<>>
    /\ field = <<>>
    /\ frame = <<>>
    /\ doc_offsets = <<>>
    /\ base = 0

\* q.all_terms()
AllTermsWithPhrases ==
    /\ pc = "build"
    /\ res' = AllTerms(q, {}, TRUE)
    /\ pc' = "terms"
    /\ UNCHANGED <<q, q2, depth, res2, deleted, post, terms, readers, heap, field, frame,
                 doc_offsets, base>>

\* q.all_terms(phrases=False)
AllTermsWithoutPhrases ==
    /\ pc = "build"
    /\ res' = AllTerms(q, {}, FALSE)
    /\ pc' = "termsnophrases"
    /\ UNCHANGED <<q, q2, depth, res2, deleted, post, terms, readers, heap, field, frame,
                 doc_offsets, base>>

NextTerms ==
    \/ WrapAnd
    \/ WrapOr
    \/ WrapDisjunctionMax
    \/ WrapNot
    \/ WrapBinary
    \/ AllTermsWithPhrases
    \/ AllTermsWithoutPhrases

SpecTerms == InitTerms /\ [][NextTerms]_vars

\* The (fieldname, text) pairs of the Term leaves of x, and of the words of
\* its Phrase leaves when phrases holds
RECURSIVE LeafTerms(_, _)
LeafTerms(x, phrases) ==
    CASE x.cls = "Term" -> {Tuple(x.fieldname, x.text)}
      [] x.cls = "Phrase" /\ phrases ->
            {Tuple(x.fieldname, x.words[i]) : i \in 1..Len(x.words)}
      [] OTHER -> UNION {LeafTerms(c, phrases) : c \in ChildSet(x)}

\* C14: q.all_terms(phrases=p) is exactly the set of the (field, text)
\* pairs of the Term leaves anywhere in q, plus the (field, word) pairs of
\* the Phrase leaves when p is true; Prefix, Wildcard, FuzzyTerm and
\* TermRange leaves contribute nothing.
AllTermsAreLeafTerms ==
    /\ pc = "terms" => ~IsError(res) /\ res.items = LeafTerms(q, TRUE)
    /\ pc = "termsnophrases" =>
          ~IsError(res) /\ res.items = LeafTerms(q, FALSE)

----------------------------------------------------------------------------
(* BooleanQuery                                                            *)

\* BooleanQuery without the final normalize
BooleanQueryUnnormalized(required, should, prohibited) ==
    AndNot(AndMaybe(And(required, 1), Or(should, 1, 0), 1),
           Or(prohibited, 1, 0), 1)

BooleanQuery(required, should, prohibited) ==
    Normalize(AndNot(AndMaybe(And(required, 1), Or(should, 1, 0), 1),
                     Or(prohibited, 1, 0), 1))

BooleanItems ==
    {TermA, TermB, NullQuery, Or(<<TermA, TermB>>, 1, 0),
     Wildcard(F, <<Star>>, 1)}

\* The lists of at most two items
BooleanLists ==
    {<<>>} \cup {<<x>> : x \in BooleanItems}
           \cup {<<x, y>> : x \in BooleanItems, y \in BooleanItems}

Arguments(required, should, prohibited) ==
    [cls |-> "arguments", required |-> required, should |-> should,
     prohibited |-> prohibited]

InitBoolean ==
    /\ pc = "arguments"
    /\ \E required \in BooleanLists, should \in BooleanLists,
          prohibited \in BooleanLists :
          q = Arguments(required, should, prohibited)
    /\ q2 = NullQuery
    /\ depth = 0
    /\ res = NullQuery
    /\ res2 = NullQuery
    /\ deleted = {}
    /\ post = <<>>
    /\ terms = {}
    /\ readers = <<>>
    /\ heap = <<>>
    /\ field = <<>>
    /\ frame = <<>>
    /\ doc_offsets = <<>>
    /\ base = 0

\* BooleanQuery(required, should, prohibited)
CallBooleanQuery ==
    /\ pc = "arguments"
    /\ res' = BooleanQuery(q.required, q.should, q.prohibited)
    /\ pc' = "boolean"
    /\ UNCHANGED <<q, q2, depth, res2, deleted, post, terms, readers, heap, field, frame,
                 doc_offsets, base>>

NextBoolean == CallBooleanQuery

SpecBoolean == InitBoolean /\ [][NextBoolean]_vars

\* C15: BooleanQuery(required, should, prohibited) is the normalized
\* AndNot(AndMaybe(And(required), Or(should)), Or(prohibited)) for all
\* lists, empty ones included; a returned query is in normal form, and it
\* is NullQuery whenever And(required) normalizes to NullQuery.
BooleanQueryIsNormalizedAndNot ==
    pc = "boolean"
    => /\ res = Normalize(AndNot(AndMaybe(And(q.required, 1),
                                          Or(q.should, 1, 0), 1),
                                 Or(q.prohibited, 1, 0), 1))
       /\ ~IsError(res) =>
             /\ TreeInNormalForm(res)
             /\ Normalize(And(q.required, 1)) = NullQuery => res = NullQuery

\* All three lists are given and the result keeps the three parts.
BooleanQueryWitness ==
    /\ pc = "boolean"
    /\ q.required # <<>> /\ q.should # <<>> /\ q.prohibited # <<>>
    /\ res.cls = "AndNot"
    /\ res.positive.cls = "AndMaybe"
    /\ res.negative.cls = "Or"

----------------------------------------------------------------------------
(* Phrase.matcher                                                          *)

\* field.format / field.vector: None, or a format supporting some features
NoFormat == [cls |-> "NoneType"]

Format(features) == [cls |-> "Format", features |-> features]

\* fmt and fmt.supports(name)
Supports(fmt, name) == fmt # NoFormat /\ name \in fmt.features

\* (fieldnum, word) in searcher
searcher_contains(fieldnum, word) == InReader(fieldnum, word)

\* [searcher.postings(fieldnum, word, exclude_docs=...) for word in words]
RECURSIVE PostingsAll(_, _, _)
PostingsAll(fieldnum, words, exclude_docs) ==
    IF words = <<>> THEN List(<<>>)
    ELSE LET m == SearcherPostings(fieldnum, Head(words), exclude_docs) IN
         IF IsError(m) THEN m
         ELSE LET rest == PostingsAll(fieldnum, Tail(words), exclude_docs) IN
              IF IsError(rest) THEN rest
              ELSE List(<<m>> \o rest.items)

\* make_tree(wordmatchers): make_tree takes the matcher class and the list,
\* so the call with the list alone lacks an argument
make_tree_of_list(matchers) == Raise("TypeError")

PostingPhraseMatcher(wordmatchers, isect, slop) ==
    [cls |-> "PostingPhraseMatcher", wordmatchers |-> wordmatchers,
     isect |-> isect, slop |-> slop]

VectorPhraseMatcher(fieldnum, words, isect, slop) ==
    [cls |-> "VectorPhraseMatcher", fieldnum |-> fieldnum, words |-> words,
     isect |-> isect, slop |-> slop]

PhraseMatcher(self, exclude_docs) ==
    LET fieldnum == fieldname_to_num(self.fieldname) IN
    IF \E i \in 1..Len(self.words) : ~searcher_contains(fieldnum, self.words[i])
    THEN NullMatcher
    ELSE LET wordmatchers == PostingsAll(fieldnum, self.words, exclude_docs)
         IN IF IsError(wordmatchers) THEN wordmatchers
            ELSE LET isect == make_tree_of_list(wordmatchers.items) IN
                 IF IsError(isect) THEN isect
                 ELSE IF Supports(field.format, "positions")
                      THEN PostingPhraseMatcher(wordmatchers.items, isect,
                                                self.slop)
                 ELSE IF Supports(field.vector, "positions")
                      THEN VectorPhraseMatcher(fieldnum, self.words, isect,
                                               self.slop)
                 ELSE Raise("QueryError")

PhraseWordLists ==
    {<<>>} \cup {<<x>> : x \in {TA, TB, TC}}
           \cup {<<x, y>> : x \in {TA, TB, TC}, y \in {TA, TB, TC}}

Formats == {NoFormat, Format({"frequency"}), Format({"positions"})}

InitPhrase ==
    /\ pc = "phrase"
    /\ \E words \in PhraseWordLists : q = Phrase(F, words, 1, 1)
    /\ q2 = NullQuery
    /\ depth = 0
    /\ res = NullQuery
    /\ res2 = NullQuery
    /\ deleted = {}
    /\ post \in [Lexicon -> SUBSET DocNums]
    /\ terms = {}
    /\ readers = <<>>
    /\ heap = <<>>
    /\ \E format \in Formats, vector \in Formats :
          field = [format |-> format, vector |-> vector]
    /\ frame = <<>>
    /\ doc_offsets = <<>>
    /\ base = 0

\* q.matcher(searcher)
MatchPhrase ==
    /\ pc = "phrase"
    /\ res' = PhraseMatcher(q, None)
    /\ pc' = "phrasematched"
    /\ UNCHANGED <<q, q2, depth, res2, deleted, post, terms, readers, heap,
                   field, frame,
                 doc_offsets, base>>

NextPhrase == MatchPhrase

SpecPhrase == InitPhrase /\ [][NextPhrase]_vars

\* C16: Phrase.matcher fails with QueryError whenever the field stores
\* positions neither in its postings format nor in its vectors, whatever
\* the words of the phrase and the content of the index.
PhraseNeedsPositions ==
    (/\ pc = "phrasematched"
     /\ ~Supports(field.format, "positions")
     /\ ~Supports(field.vector, "positions"))
    => res = Raise("QueryError")

----------------------------------------------------------------------------
(* MultiTerm.matcher                                                       *)

\* The loop of MultiTerm.matcher: the matcher of each word is appended,
\* a word whose matcher raises TermNotFound is passed over
RECURSIVE WordMatchers(_, _, _)
WordMatchers(fieldname, words, exclude_docs) ==
    IF words = <<>> THEN List(<<>>)
    ELSE LET m == TermMatcher(Term(fieldname, Head(words), 1), exclude_docs)
             rest == WordMatchers(fieldname, Tail(words), exclude_docs)
         IN IF m.cls = "TermNotFound" THEN rest
            ELSE IF IsError(m) THEN m
            ELSE IF IsError(rest) THEN rest
            ELSE List(<<m>> \o rest.items)

\* Or(matchers, boost=self.boost).matcher(searcher): the subqueries of the
\* Or are the matcher objects
MultiTermMatcher(self, exclude_docs) ==
    LET words == Words(self) IN
    IF IsError(words) THEN words
    ELSE LET matchers == WordMatchers(self.fieldname, words.items,
                                      exclude_docs)
         IN IF IsError(matchers) THEN matchers
            ELSE IF matchers.items # <<>>
                 THEN QueryMatcher(Or(matchers.items, self.boost, 0), None)
            ELSE NullMatcher

MultiTermOperands ==
    {Prefix(F, TA, 1), Prefix(F, TC, 1), Wildcard(F, <<Qm>>, 1),
     TermRange(F, TA, TB, FALSE, FALSE, 1),
     Variations(F, TA, 1, <<TA, TAB>>)}

\* The dictionary may name a term whose posting list the reader lacks
MultiTermDicts == SUBSET {<<F, TA>>, <<F, TAB>>, <<F, TB>>}

InitMulti ==
    /\ pc = "multiterm"
    /\ q \in MultiTermOperands
    /\ q2 = NullQuery
    /\ depth = 0
    /\ res = NullQuery
    /\ res2 = NullQuery
    /\ deleted \in SUBSET DocNums
    /\ post \in [Lexicon -> SUBSET DocNums]
    /\ terms \in MultiTermDicts
    /\ readers = <<>>
    /\ heap = <<>>
    /\ field = <<>>
    /\ frame = <<>>
    /\ doc_offsets = <<>>
    /\ base = 0

\* q.matcher(searcher)
MatchMultiTerm ==
    /\ pc = "multiterm"
    /\ res' = QueryMatcher(q, None)
    /\ pc' = "multimatched"
    /\ UNCHANGED <<q, q2, depth, res2, deleted, post, terms, readers, heap,
                   field, frame,
                 doc_offsets, base>>

NextMulti == MatchMultiTerm

SpecMulti == InitMulti /\ [][NextMulti]_vars

\* The documents of the expanded words whose postings are found
FoundDocs ==
    UNION {IdSet(SearcherPostings(q.fieldname, w, None)) :
              w \in {v \in {Words(q).items[i] : i \in 1..Len(Words(q).items)} :
                        InReader(q.fieldname, v)}}

\* C17: MultiTerm.matcher skips a word whose postings lookup raises
\* TermNotFound and returns the union of the matchers of the other words,
\* the null matcher when no word remains; no TermNotFound escapes.
MultiTermSkipsMissingWords ==
    pc = "multimatched"
    => /\ ~IsError(res)
       /\ IdSet(res) = FoundDocs

----------------------------------------------------------------------------
(* MultiReader: term iteration over the sub-readers.  readers is the       *)
(* sequence of the dictionaries of the sub-readers, frame the locals of    *)
(* the _merge_terms generator, res the terms yielded so far.               *)

MaxReaders == 2

MergeUniverse == {<<F, TA>>, <<F, TB>>, <<G, TA>>}

\* (term, id(it)) tuples compare by term, then by id
EntryLess(e, f) == TermLess(e[1], f[1]) \/ (e[1] = f[1] /\ e[2] < f[2])

\* current[0] of the heap
HeapTop(current) ==
    CHOOSE e \in current : \A f \in current : e = f \/ EntryLess(e, f)

Frame(iterlist, current, active) ==
    [iterlist |-> iterlist, current |-> current, active |-> active]

\* The head term of each iterator that has one is taken into current
FillCurrent(iterlist) ==
    LET live == {i \in 1..Len(iterlist) : iterlist[i] # <<>>} IN
    Frame([i \in 1..Len(iterlist) |->
              IF i \in live THEN Tail(iterlist[i]) ELSE <<>>],
          {<<Head(iterlist[i]), i>> : i \in live},
          Cardinality(live))

\* while active and current[0][0] == term: the iterator of the top entry is
\* advanced (heapreplace), or leaves the heap when it is exhausted (heappop)
RECURSIVE Reiterate(_, _)
Reiterate(fr, term) ==
    IF fr.active # 0 /\ HeapTop(fr.current)[1] = term
    THEN LET top == HeapTop(fr.current)
             itid == top[2]
             it == fr.iterlist[itid]
         IN IF it # <<>>
            THEN Reiterate(
                   Frame([fr.iterlist EXCEPT ![itid] = Tail(it)],
                         (fr.current \ {top}) \cup {<<Head(it), itid>>},
                         fr.active), term)
            ELSE Reiterate(
                   Frame(fr.iterlist, fr.current \ {top}, fr.active - 1),
                   term)
    ELSE fr

\* One pass of the outer loop that advances the top iterator only once
MergePassWithoutReiteration(fr) ==
    LET top == HeapTop(fr.current)
        itid == top[2]
        it == fr.iterlist[itid]
    IN IF it # <<>>
       THEN Frame([fr.iterlist EXCEPT ![itid] = Tail(it)],
                  (fr.current \ {top}) \cup {<<Head(it), itid>>}, fr.active)
       ELSE Frame(fr.iterlist, fr.current \ {top}, fr.active - 1)

\* One pass of the outer loop, up to its yield
MergePass(fr) == Reiterate(fr, HeapTop(fr.current)[1])

InitMerge ==
    /\ pc = "reader"
    /\ q = NullQuery
    /\ q2 = NullQuery
    /\ depth = 0
    /\ res = List(<<>>)
    /\ res2 = NullQuery
    /\ deleted = {}
    /\ post = <<>>
    /\ terms = {}
    /\ readers \in UNION {[1..n -> SUBSET MergeUniverse] : n \in 0..MaxReaders}
    /\ heap = <<>>
    /\ field = <<>>
    /\ frame = <<>>
    /\ doc_offsets = <<>>
    /\ base = 0

\* MultiReader.all_terms()
CallAllTerms ==
    /\ pc = "reader"
    /\ q' = [cls |-> "all_terms"]
    /\ frame' = Frame([i \in 1..Len(readers) |-> SortedTerms(readers[i])],
                      {}, 0)
    /\ pc' = "called"
    /\ UNCHANGED <<q2, depth, res, res2, deleted, post, terms, readers, heap,
                   field,
                   doc_offsets, base>>

\* MultiReader.terms_from(fieldname, prefix)
CallTermsFrom ==
    /\ pc = "reader"
    /\ \E fieldname \in {F, G}, prefix \in {<<>>, TB} :
          /\ q' = [cls |-> "terms_from", fieldname |-> fieldname,
                   prefix |-> prefix]
          /\ frame' = Frame([i \in 1..Len(readers) |->
                                ReaderTermsFrom(readers[i], fieldname, prefix)],
                            {}, 0)
    /\ pc' = "called"
    /\ UNCHANGED <<q2, depth, res, res2, deleted, post, terms, readers, heap,
                   field,
                   doc_offsets, base>>

\* The generator starts: current is filled and the branch is taken
StartMerge ==
    /\ pc = "called"
    /\ frame' = FillCurrent(frame.iterlist)
    /\ pc' = IF frame'.active = 1 THEN "single" ELSE "merge"
    /\ UNCHANGED <<q, q2, depth, res, res2, deleted, post, terms, readers,
                   heap, field,
                   doc_offsets, base>>

\* Only one iterator is active: its head term is yielded
YieldSingleHead ==
    /\ pc = "single"
    /\ res' = List(Append(res.items, HeapTop(frame.current)[1]))
    /\ pc' = "rest"
    /\ UNCHANGED <<q, q2, depth, res2, deleted, post, terms, readers, heap,
                   field, frame,
                 doc_offsets, base>>

\* for term in it: yield term
YieldSingleRest ==
    /\ pc = "rest"
    /\ LET itid == HeapTop(frame.current)[2] IN
       /\ frame.iterlist[itid] # <<>>
       /\ res' = List(Append(res.items, Head(frame.iterlist[itid])))
       /\ frame' = [frame EXCEPT !.iterlist[itid] = Tail(@)]
    /\ UNCHANGED <<pc, q, q2, depth, res2, deleted, post, terms, readers,
                   heap, field,
                   doc_offsets, base>>

EndSingle ==
    /\ pc = "rest"
    /\ frame.iterlist[HeapTop(frame.current)[2]] = <<>>
    /\ pc' = "done"
    /\ UNCHANGED <<q, q2, depth, res, res2, deleted, post, terms, readers,
                   heap, field, frame,
                 doc_offsets, base>>

\* One pass of while active: the least term is yielded once
MergeStep ==
    /\ pc = "merge"
    /\ frame.active # 0
    /\ res' = List(Append(res.items, HeapTop(frame.current)[1]))
    /\ frame' = MergePass(frame)
    /\ UNCHANGED <<pc, q, q2, depth, res2, deleted, post, terms, readers,
                   heap, field,
                   doc_offsets, base>>

EndMerge ==
    /\ pc = "merge"
    /\ frame.active = 0
    /\ pc' = "done"
    /\ UNCHANGED <<q, q2, depth, res, res2, deleted, post, terms, readers,
                   heap, field, frame,
                 doc_offsets, base>>

NextMerge ==
    \/ CallAllTerms
    \/ CallTermsFrom
    \/ StartMerge
    \/ YieldSingleHead
    \/ YieldSingleRest
    \/ EndSingle
    \/ MergeStep
    \/ EndMerge

SpecMerge == InitMerge /\ [][NextMerge]_vars

\* The generator is resumed until it is exhausted
SpecMergeFair == SpecMerge /\ WF_vars(NextMerge)

\* The terms the call has to yield: those of at least one sub-reader, from
\* (fieldname, prefix) on for terms_from
MergeExpected ==
    LET all == UNION {readers[i] : i \in 1..Len(readers)} IN
    IF q.cls = "terms_from"
    THEN {t \in all : ~TermLess(t, <<q.fieldname, q.prefix>>)}
    ELSE all

MergeAscending ==
    \A i, j \in 1..Len(res.items) :
        i < j => TermLess(res.items[i], res.items[j])

MergeSafe ==
    /\ pc \in {"single", "rest", "merge", "done"} =>
          /\ MergeAscending
          /\ {res.items[i] : i \in 1..Len(res.items)} \subseteq MergeExpected
    /\ pc = "done" =>
          {res.items[i] : i \in 1..Len(res.items)} = MergeExpected

\* C18: over sub-readers that yield their terms in strictly ascending
\* order, MultiReader.all_terms and terms_from yield every term of at least
\* one sub-reader exactly once, in strictly ascending order, for 0, 1 or
\* more sub-readers (exhausted ones included), and the merge terminates.
MergeYieldsEachTermOnce == [](MergeSafe) /\ <>(pc = "done")

\* Two sub-readers that share a term and each hold a term of their own
\* have been merged.
MergeWitness ==
    /\ pc = "done"
    /\ Len(readers) = 2
    /\ readers[1] \cap readers[2] # {}
    /\ readers[1] \ readers[2] # {}
    /\ readers[2] \ readers[1] # {}
    /\ Len(res.items) = 3

----------------------------------------------------------------------------
(* IndexReader.terms_from, the scan of all_terms()                         *)

IndexReaderTermsFrom(fieldname, prefix) ==
    SelectSeq(all_terms,
              LAMBDA t : ~(FieldLess(t[1], fieldname) \/ TextLess(t[2], prefix)))

InitTermsFrom ==
    /\ pc = "reader"
    /\ q = NullQuery
    /\ q2 = NullQuery
    /\ depth = 0
    /\ res = NullQuery
    /\ res2 = NullQuery
    /\ deleted = {}
    /\ post = <<>>
    /\ terms \in SUBSET RangeUniverse
    /\ readers = <<>>
    /\ heap = <<>>
    /\ field = <<>>
    /\ frame = <<>>
    /\ doc_offsets = <<>>
    /\ base = 0

\* list(reader.terms_from(fieldname, prefix))
ScanTermsFrom ==
    /\ pc = "reader"
    /\ \E fieldname \in {E, F, G}, prefix \in {<<>>, TA, TAB, TB, TC} :
          /\ q' = [cls |-> "terms_from", fieldname |-> fieldname,
                   prefix |-> prefix]
          /\ res' = List(IndexReaderTermsFrom(fieldname, prefix))
    /\ pc' = "termsfrom"
    /\ UNCHANGED <<q2, depth, res2, deleted, post, terms, readers, heap,
                   field, frame,
                 doc_offsets, base>>

NextTermsFrom == ScanTermsFrom

SpecTermsFrom == InitTermsFrom /\ [][NextTermsFrom]_vars

\* C19: IndexReader.terms_from(field, prefix) yields, in order, exactly the
\* terms of all_terms() that are not below (field, prefix) in the
\* lexicographic order on (field, term); no later term is omitted.
TermsFromStartsAtPrefix ==
    pc = "termsfrom"
    => res.items =
         SelectSeq(all_terms,
                   LAMBDA t : ~TermLess(t, <<q.fieldname, q.prefix>>))

----------------------------------------------------------------------------
(* Query objects by reference.  heap is the sequence of the objects        *)
(* created so far, a reference is an index into it.  A query object holds  *)
(* the references of its children, a compound the reference of its         *)
(* subqueries list; a list object holds the references of its items.       *)

MaxCalls == 2

Ref(addr) == [cls |-> "ref", addr |-> addr]

\* The NullQuery singleton
NullRef == 1

ListObject(items) == [cls |-> "list", items |-> items]

\* A call's outcome: the heap it leaves and the reference (or exception)
\* it returns
Outcome(h, val) == [heap |-> h, val |-> val]

\* A new object
New(h, obj) == Outcome(Append(h, obj), Ref(Len(h) + 1))

\* The items of the list object at reference l
Items(h, l) == h[l].items

\* The subqueries of the compound at reference a
SubRefs(h, a) == Items(h, h[a].subqueries)

\* The constructors applied to a tree of queries, children first
RECURSIVE Construct(_, _)
RECURSIVE ConstructAll(_, _, _)
ConstructAll(h, xs, refs) ==
    IF xs = <<>> THEN New(h, ListObject(refs))
    ELSE LET c == Construct(h, Head(xs)) IN
         ConstructAll(c.heap, Tail(xs), Append(refs, c.val.addr))

Construct(h, x) ==
    CASE x.cls = "NullQuery" -> Outcome(h, Ref(NullRef))
      [] x.cls \in {"And", "Or"} ->
            LET l == ConstructAll(h, x.subqueries, <<>>) IN
            New(l.heap, [x EXCEPT !.subqueries = l.val.addr])
      [] x.cls = "Not" ->
            LET c == Construct(h, x.query) IN
            New(c.heap, [x EXCEPT !.query = c.val.addr])
      [] OTHER -> New(h, x)

\* The tree of the fields of the object at reference a
RECURSIVE Tree(_, _)
Tree(h, a) ==
    LET obj == h[a] IN
    CASE obj.cls \in {"And", "Or"} ->
            [obj EXCEPT !.subqueries =
                [i \in 1..Len(SubRefs(h, a)) |-> Tree(h, SubRefs(h, a)[i])]]
      [] obj.cls = "Not" -> [obj EXCEPT !.query = Tree(h, obj.query)]
      [] OTHER -> obj

RECURSIVE RefNormalize(_, _)

\* The loop of CompoundQuery.normalize; subqs is the reference of the list
\* the loop fills
RECURSIVE RefNormalizeLoop(_, _, _, _, _)
RefNormalizeLoop(h, cls, rest, subqs, seenterms) ==
    IF rest = <<>> THEN Outcome(h, Ref(subqs))
    ELSE LET n == RefNormalize(h, Head(rest))
             s == n.val.addr
             obj == n.heap[s]
             term == <<obj.fieldname, obj.text>>
         IN IF s = NullRef
            THEN RefNormalizeLoop(n.heap, cls, Tail(rest), subqs, seenterms)
            ELSE IF obj.cls = "Term" /\ term \in seenterms
            THEN RefNormalizeLoop(n.heap, cls, Tail(rest), subqs, seenterms)
            ELSE LET seen == IF obj.cls = "Term"
                             THEN seenterms \cup {term} ELSE seenterms
                     added == IF obj.cls = cls
                              THEN SubRefs(n.heap, s) ELSE <<s>>
                 IN RefNormalizeLoop(
                       [n.heap EXCEPT ![subqs].items = @ \o added],
                       cls, Tail(rest), subqs, seen)

RefCompoundNormalize(h, self) ==
    LET subqueries == SelectSeq(SubRefs(h, self), LAMBDA s : s # NullRef) IN
    IF subqueries = <<>> THEN Outcome(h, Ref(NullRef))
    ELSE LET l == New(h, ListObject(<<>>))
             r == RefNormalizeLoop(l.heap, h[self].cls, subqueries,
                                   l.val.addr, {})
             subqs == Items(r.heap, l.val.addr)
         IN IF subqs = <<>> THEN Outcome(r.heap, Ref(NullRef))
            ELSE IF Len(subqs) = 1 THEN Outcome(r.heap, Ref(subqs[1]))
            ELSE New(r.heap,
                     NewCompound(h[self].cls, l.val.addr, h[self].boost))

\* Or.normalize with the assignment made whatever the class of norm
RefOrNormalizeAlways(h, self) ==
    LET r == RefCompoundNormalize(h, self)
        norm == r.val.addr
    IN Outcome([r.heap EXCEPT ![norm] =
                   [minmatch |-> h[self].minmatch] @@ @],
               r.val)

RefOrNormalize(h, self) ==
    LET r == RefCompoundNormalize(h, self)
        norm == r.val.addr
    IN IF r.heap[norm].cls = h[self].cls
       THEN Outcome([r.heap EXCEPT ![norm].minmatch = h[self].minmatch],
                    r.val)
       ELSE r

RefNotNormalize(h, self) ==
    LET r == RefNormalize(h, h[self].query) IN
    IF r.val.addr = NullRef THEN Outcome(r.heap, Ref(NullRef))
    ELSE New(r.heap, Not(r.val.addr, h[self].boost))

RefNormalize(h, self) ==
    CASE h[self].cls = "And" -> RefCompoundNormalize(h, self)
      [] h[self].cls = "Or" -> RefOrNormalize(h, self)
      [] h[self].cls = "Not" -> RefNotNormalize(h, self)
      [] OTHER -> Outcome(h, Ref(self))


\* [q.replace(oldtext, newtext) for q in self.subqueries] and the like: the
\* receivers are visited in order, the results collected in a new list
RECURSIVE RefReplace(_, _, _, _)
RECURSIVE RefReplaceAll(_, _, _, _, _)
RefReplaceAll(h, rest, oldtext, newtext, done) ==
    IF rest = <<>> THEN New(h, ListObject(done))
    ELSE LET r == RefReplace(h, Head(rest), oldtext, newtext) IN
         RefReplaceAll(r.heap, Tail(rest), oldtext, newtext,
                       Append(done, r.val.addr))

RefTermReplace(h, self, oldtext, newtext) ==
    IF h[self].text = oldtext
    THEN New(h, Term(h[self].fieldname, newtext, h[self].boost))
    ELSE Outcome(h, Ref(self))

RefCompoundReplace(h, self, oldtext, newtext) ==
    LET l == RefReplaceAll(h, SubRefs(h, self), oldtext, newtext, <<>>) IN
    New(l.heap, NewCompound(h[self].cls, l.val.addr, h[self].boost))

RefNotReplace(h, self, oldtext, newtext) ==
    LET r == RefReplace(h, h[self].query, oldtext, newtext) IN
    New(r.heap, Not(r.val.addr, h[self].boost))

RefReplace(h, self, oldtext, newtext) ==
    CASE h[self].cls = "Term" -> RefTermReplace(h, self, oldtext, newtext)
      [] h[self].cls \in {"And", "Or"} ->
            RefCompoundReplace(h, self, oldtext, newtext)
      [] h[self].cls = "Not" -> RefNotReplace(h, self, oldtext, newtext)
      [] OTHER -> Outcome(h, Ref(self))

\* accept with a visitor that returns the query it is given.
\* copy.deepcopy of a query without children is a new object with the same
\* fields.
RECURSIVE RefAccept(_, _)
RECURSIVE RefAcceptAll(_, _, _)
RefAcceptAll(h, rest, done) ==
    IF rest = <<>> THEN New(h, ListObject(done))
    ELSE LET r == RefAccept(h, Head(rest)) IN
         RefAcceptAll(r.heap, Tail(rest), Append(done, r.val.addr))

RefQueryAccept(h, self) == New(h, h[self])

RefCompoundAccept(h, self) ==
    LET qs == RefAcceptAll(h, SubRefs(h, self), <<>>) IN
    New(qs.heap, NewCompound(h[self].cls, qs.val.addr, h[self].boost))

RefNotAccept(h, self) ==
    LET r == RefAccept(h, h[self].query) IN
    New(r.heap, Not(r.val.addr, h[self].boost))

RefAccept(h, self) ==
    CASE h[self].cls \in {"And", "Or"} -> RefCompoundAccept(h, self)
      [] h[self].cls = "Not" -> RefNotAccept(h, self)
      [] OTHER -> RefQueryAccept(h, self)

\* _split_queries: two new lists
RefSplitQueries(h, self) ==
    LET subs == SelectSeq(SubRefs(h, self), LAMBDA s : h[s].cls # "Not")
        ns == SelectSeq(SubRefs(h, self), LAMBDA s : h[s].cls = "Not")
        l == New(h, ListObject(subs))
        n == New(l.heap, ListObject([i \in 1..Len(ns) |-> h[ns[i]].query]))
    IN [heap |-> n.heap, subs |-> l.val.addr, nots |-> n.val.addr]

RECURSIVE RefSimplify(_, _)
RECURSIVE RefSimplifyAll(_, _, _)
RefSimplifyAll(h, rest, done) ==
    IF rest = <<>> THEN New(h, ListObject(done))
    ELSE LET r == RefSimplify(h, Head(rest)) IN
         IF IsError(r.val) THEN r
         ELSE RefSimplifyAll(r.heap, Tail(rest), Append(done, r.val.addr))

\* Or(nots).normalize().simplify(): the Or takes the nots list, and simplify
\* is called without ixreader
RefSimplifyNots(h, nots) ==
    LET o == New(h, Or(nots, 1, 0))
        norm == RefNormalize(o.heap, o.val.addr)
    IN Outcome(norm.heap, Raise("TypeError"))

RefCompoundSimplify(h, self) ==
    LET sq == RefSplitQueries(h, self) IN
    IF Items(sq.heap, sq.subs) # <<>>
    THEN LET simplified == RefSimplifyAll(sq.heap, Items(sq.heap, sq.subs),
                                          <<>>)
         IN IF IsError(simplified.val) THEN simplified
            ELSE LET subs == New(simplified.heap,
                                 NewCompound(h[self].cls,
                                             simplified.val.addr,
                                             h[self].boost))
                 IN IF Items(sq.heap, sq.nots) # <<>>
                    THEN RefSimplifyNots(subs.heap, sq.nots)
                    ELSE subs
    ELSE Outcome(sq.heap, Ref(NullRef))

RefSimplify(h, self) ==
    CASE h[self].cls \in {"And", "Or"} -> RefCompoundSimplify(h, self)
      [] OTHER -> Outcome(h, Ref(self))

RECURSIVE RefMatcher(_, _, _)

RefDocs(h, self, exclude_docs) ==
    IF h[self].cls = "NullQuery" THEN Outcome(h, Matcher(<<>>))
    ELSE LET m == RefMatcher(h, self, exclude_docs) IN
         IF m.val.cls = "TermNotFound" THEN Outcome(m.heap, Matcher(<<>>))
         ELSE m

\* The loop of _not_vector; nvector is the copy of sourcevector
RECURSIVE RefNotVectorLoop(_, _, _)
RefNotVectorLoop(h, notqueries, nvector) ==
    IF notqueries = <<>> THEN Outcome(h, BitVector(nvector))
    ELSE LET docs == RefDocs(h, Head(notqueries), None) IN
         IF IsError(docs.val) THEN docs
         ELSE RefNotVectorLoop(docs.heap, Tail(notqueries),
                               nvector \cup IdSet(docs.val))

RECURSIVE RefMatcherAll(_, _, _, _)
RefMatcherAll(h, subs, exclude_docs, done) ==
    IF subs = <<>> THEN Outcome(h, List(done))
    ELSE LET m == RefMatcher(h, Head(subs), exclude_docs) IN
         IF IsError(m.val) THEN m
         ELSE RefMatcherAll(m.heap, Tail(subs), exclude_docs,
                            Append(done, m.val))

\* _submatchers: subs.sort reorders the list object subs in place
RefSubmatchers(h, self, exclude_docs) ==
    LET sq == RefSplitQueries(h, self)
        nvector == RefNotVectorLoop(sq.heap, Items(sq.heap, sq.nots),
                                    exclude_docs)
    IN IF IsError(nvector.val) THEN nvector
       ELSE LET subs == Items(nvector.heap, sq.subs)
                keys == EstimateAll([i \in 1..Len(subs) |->
                                        Tree(nvector.heap, subs[i])])
            IN IF IsError(keys) THEN Outcome(nvector.heap, keys)
               ELSE LET sorted == [nvector.heap EXCEPT ![sq.subs].items =
                                      StableSort(@, keys.items)]
                    IN RefMatcherAll(sorted, Items(sorted, sq.subs),
                                     nvector.val.bits, <<>>)

RefCompoundMatcher(h, self, matchercls, exclude_docs) ==
    LET subs == RefSubmatchers(h, self, exclude_docs) IN
    IF IsError(subs.val) THEN subs
    ELSE LET tree == make_tree(matchercls, subs.val.items) IN
         Outcome(subs.heap,
                 IF h[self].boost = 1 THEN tree
                 ELSE WrappingMatcher(tree, h[self].boost))

RefNotMatcher(h, self, exclude_docs) ==
    LET child == RefMatcher(h, h[self].query, None) IN
    IF IsError(child.val) THEN child
    ELSE Outcome(child.heap,
                 InverseMatcher(child.val, doc_count_all, deleted))

RefMatcher(h, self, exclude_docs) ==
    CASE h[self].cls = "And" ->
            RefCompoundMatcher(h, self, "IntersectionMatcher", exclude_docs)
      [] h[self].cls = "Or" ->
            RefCompoundMatcher(h, self, "UnionMatcher", exclude_docs)
      [] h[self].cls = "Not" -> RefNotMatcher(h, self, exclude_docs)
      [] h[self].cls = "Term" -> Outcome(h, TermMatcher(h[self], exclude_docs))
      [] h[self].cls = "NullQuery" -> Outcome(h, NullMatcher)


----------------------------------------------------------------------------
(* Calls on a constructed query tree and on what they return               *)

RefTrees ==
    {Or(<<TermA, NullQuery>>, 1, 2),
     And(<<TermA, TermB>>, 1),
     And(<<TermB, Not(TermA, 1), TermA>>, 2),
     Or(<<Or(<<TermA, TermB>>, 1, 2), TermA>>, 1, 1),
     Not(Or(<<TermA, TermA>>, 1, 0), 1),
     Or(<<TermB, And(<<TermA, NullQuery>>, 1)>>, 2, 0)}

RefPostings ==
    {[text \in Lexicon |-> IF text = TA THEN {0, 1} ELSE {0}],
     [text \in Lexicon |-> IF text = TA THEN {} ELSE {0, 1}]}

\* The module's NullQuery singleton, then the tree's objects; q keeps the
\* fields of the tree as constructed, res2 the reference of its root
InitRefs ==
    /\ pc = "constructed"
    /\ q \in RefTrees
    /\ q2 = NullQuery
    /\ depth = 0
    /\ LET c == Construct(<<NullQuery>>, q) IN
           /\ heap = c.heap
           /\ res2 = c.val
           /\ res = c.val
    /\ deleted = {}
    /\ post \in RefPostings
    /\ terms = {}
    /\ readers = <<>>
    /\ field = <<>>
    /\ frame = <<>>
    /\ doc_offsets = <<>>
    /\ base = 0

\* The receiver of the next call: the constructed tree, or the query the
\* last call returned
Receivers ==
    {res2.addr} \cup (IF res.cls = "ref" THEN {res.addr} ELSE {})

Returned(name, r) ==
    /\ heap' = r.heap
    /\ res' = r.val
    /\ pc' = name
    /\ depth' = depth + 1
    /\ UNCHANGED <<q, q2, res2, deleted, post, terms, readers, field, frame,
                 doc_offsets, base>>

RefCallNormalize ==
    /\ depth < MaxCalls
    /\ \E self \in Receivers : Returned("normalize", RefNormalize(heap, self))

RefCallSimplify ==
    /\ depth < MaxCalls
    /\ \E self \in Receivers : Returned("simplify", RefSimplify(heap, self))

RefCallReplace ==
    /\ depth < MaxCalls
    /\ \E self \in Receivers : \E oldtext \in {TA, TC} :
           Returned("replace", RefReplace(heap, self, oldtext, TB))

RefCallAccept ==
    /\ depth < MaxCalls
    /\ \E self \in Receivers : Returned("accept", RefAccept(heap, self))

\* all_terms adds to a new set and touches no query
RefCallAllTerms ==
    /\ depth < MaxCalls
    /\ \E self \in Receivers :
           Returned("all_terms",
                    Outcome(heap, AllTerms(Tree(heap, self), {}, TRUE)))

\* estimate_size only reads the tree
RefCallEstimateSize ==
    /\ depth < MaxCalls
    /\ \E self \in Receivers :
           Returned("estimate_size",
                    Outcome(heap, EstimateSize(Tree(heap, self))))

RefCallMatcher ==
    /\ depth < MaxCalls
    /\ \E self \in Receivers :
           Returned("matcher", RefMatcher(heap, self, None))

RefCallDocs ==
    /\ depth < MaxCalls
    /\ \E self \in Receivers : Returned("docs", RefDocs(heap, self, None))

NextRefs ==
    \/ RefCallNormalize
    \/ RefCallSimplify
    \/ RefCallReplace
    \/ RefCallAccept
    \/ RefCallAllTerms
    \/ RefCallEstimateSize
    \/ RefCallMatcher
    \/ RefCallDocs

SpecRefs == InitRefs /\ [][NextRefs]_vars

\* C20: whatever normalize, simplify, replace, accept, all_terms,
\* estimate_size, matcher and docs calls were made on a query tree and on
\* the queries they returned, the tree has the fields it was constructed
\* with: the same children in the same order, the same text, boost and
\* minmatch.
QueryTreeUnchanged == Tree(heap, res2.addr) = q

\* normalize returned a descendant of an Or with a minmatch, not a new
\* object
QueryTreeSharedWitness ==
    /\ pc = "normalize"
    /\ q.cls = "Or" /\ q.minmatch = 2
    /\ res.cls = "ref" /\ res.addr # NullRef /\ res.addr < res2.addr


----------------------------------------------------------------------------
(* Estimates against the documents the matcher yields                      *)

\* C21: whenever estimate_size is defined for a query and its matcher could
\* be built, the estimate is at least the number of doc ids the matcher
\* yields.
EstimateNeverUnderestimates ==
    pc = "matched" /\ ~IsError(res) /\ ~IsError(EstimateSize(q))
        => EstimateSize(q).val >= Len(res.ids)


----------------------------------------------------------------------------
(* Segment readers and the MultiReader over them.  readers is the list of  *)
(* the sub-readers, doc_offsets and base are the MultiReader's own fields. *)
(* A sub-reader is its number of documents, its deleted documents and its  *)
(* term dictionary for the field F: text -> posting ids and TermInfo.      *)

MaxSegmentDocs == 2

TermInfo(weight, df, minlength, maxlength, maxweight, minid, maxid) ==
    [cls |-> "TermInfo", weight |-> weight, df |-> df,
     minlength |-> minlength, maxlength |-> maxlength,
     maxweight |-> maxweight, minid |-> minid, maxid |-> maxid]

SetMin(S) == CHOOSE x \in S : \A y \in S : x <= y

SetMax(S) == CHOOSE x \in S : \A y \in S : x >= y

\* TermInfo() after add_posting(docnum, 1, 1) for each docnum of ids in
\* ascending order
PostedTermInfo(ids) ==
    TermInfo(Cardinality(ids), Cardinality(ids), 1, 1, 1,
             SetMin(ids), SetMax(ids))

Segment(count, deleted_docs, dictionary) ==
    [doc_count_all |-> count, deleted |-> deleted_docs, terms |-> dictionary]

\* The dictionaries of a segment of count documents: TA absent, or posted
\* in some of the documents
SegmentDictionaries(count) ==
    {<<>>} \cup
    {[text \in {TA} |-> [ids |-> ids, terminfo |-> PostedTermInfo(ids)]] :
        ids \in (SUBSET (0..(count - 1))) \ {{}}}

\* Segments with at most one deleted document
Segments ==
    UNION {{Segment(count, deleted_docs, dictionary) :
               deleted_docs \in {{}} \cup {{d} : d \in 0..(count - 1)},
               dictionary \in SegmentDictionaries(count)} :
           count \in 0..MaxSegmentDocs}

\* Segments with an empty dictionary
DocumentSegments == {r \in Segments : r.terms = <<>>}

\* The lists of at most n of the segments
RECURSIVE ReaderLists(_, _)
ReaderLists(n, segments) ==
    IF n = 0 THEN {<<>>}
    ELSE LET shorter == ReaderLists(n - 1, segments) IN
         shorter \cup
         {Append(rs, r) : rs \in {x \in shorter : Len(x) = n - 1},
                          r \in segments}

\* SegmentReader.__contains__
SegmentContains(r, term) == term[1] = F /\ term[2] \in DOMAIN r.terms

\* SegmentReader.term_info: the TermInfo the terms reader holds
SegmentTermInfo(r, fieldname, text) ==
    IF SegmentContains(r, <<fieldname, text>>) THEN r.terms[text].terminfo
    ELSE Raise("TermNotFound")

\* SegmentReader.postings without the filter on deleted documents
SegmentPostingsUnfiltered(r, fieldname, text) ==
    IF ~SegmentContains(r, <<fieldname, text>>) THEN Raise("TermNotFound")
    ELSE Matcher(Ascending(r.terms[text].ids))

\* SegmentReader.postings: the posting list without the deleted documents
SegmentPostings(r, fieldname, text) ==
    IF ~SegmentContains(r, <<fieldname, text>>) THEN Raise("TermNotFound")
    ELSE FilterMatcher(Matcher(Ascending(r.terms[text].ids)), r.deleted)

\* IndexReader.first_id
IndexReaderFirstId(r, fieldname, text) ==
    LET p == SegmentPostings(r, fieldname, text) IN
    IF IsError(p) THEN p
    ELSE IF p.ids # <<>> THEN IntVal(Head(p.ids))
    ELSE Raise("TermNotFound")

\* The loop of MultiReader.__init__
RECURSIVE MultiReaderInitLoop(_, _, _)
MultiReaderInitLoop(rs, offsets, b) ==
    IF rs = <<>> THEN [doc_offsets |-> offsets, base |-> b]
    ELSE MultiReaderInitLoop(Tail(rs), Append(offsets, b),
                             b + Head(rs).doc_count_all)

\* MultiReader.__init__ with base left at 0
MultiReaderInitNoBase(rs) ==
    [doc_offsets |-> [i \in 1..Len(rs) |-> 0], base |-> 0]

MultiReaderInit(rs) == MultiReaderInitLoop(rs, <<>>, 0)

\* bisect.bisect_right(a, x, lo, hi), indexes from 0
RECURSIVE bisect_right(_, _, _, _)
bisect_right(a, x, lo, hi) ==
    IF lo < hi
    THEN LET mid == (lo + hi) \div 2 IN
         IF x < a[mid + 1] THEN bisect_right(a, x, lo, mid)
         ELSE bisect_right(a, x, mid + 1, hi)
    ELSE lo

\* bisect.bisect_left(a, x, lo, hi), indexes from 0
RECURSIVE bisect_left(_, _, _, _)
bisect_left(a, x, lo, hi) ==
    IF lo < hi
    THEN LET mid == (lo + hi) \div 2 IN
         IF a[mid + 1] < x THEN bisect_left(a, x, mid + 1, hi)
         ELSE bisect_left(a, x, lo, mid)
    ELSE lo

Max2(a, b) == IF a >= b THEN a ELSE b

\* _document_segment with bisect_left in place of bisect_right
document_segment_left(docnum) ==
    Max2(0, bisect_left(doc_offsets, docnum, 0, Len(doc_offsets)) - 1)

\* _document_segment; the segment number counts from 0
document_segment(docnum) ==
    Max2(0, bisect_right(doc_offsets, docnum, 0, Len(doc_offsets)) - 1)

\* _segment_and_docnum; indexing an empty doc_offsets raises IndexError
segment_and_docnum(docnum) ==
    LET segmentnum == document_segment(docnum) IN
    IF segmentnum >= Len(doc_offsets) THEN Raise("IndexError")
    ELSE [cls |-> "tuple", segmentnum |-> segmentnum,
          segmentdoc |-> docnum - doc_offsets[segmentnum + 1]]

\* MultiReader.is_deleted
MultiReaderIsDeleted(docnum) ==
    LET sd == segment_and_docnum(docnum) IN
    IF IsError(sd) THEN sd
    ELSE Bool(sd.segmentdoc \in readers[sd.segmentnum + 1].deleted)

\* MultiReader.doc_count_all
RECURSIVE SumDocCountAll(_)
SumDocCountAll(rs) ==
    IF rs = <<>> THEN 0
    ELSE Head(rs).doc_count_all + SumDocCountAll(Tail(rs))

MultiReaderDocCountAll == SumDocCountAll(readers)

\* The loop of MultiReader.first_id over enumerate(self.readers)
RECURSIVE MultiReaderFirstIdLoop(_, _, _)
MultiReaderFirstIdLoop(i, fieldname, text) ==
    IF i > Len(readers) THEN Raise("TermNotFound")
    ELSE LET id == IndexReaderFirstId(readers[i], fieldname, text) IN
         IF IsError(id) THEN MultiReaderFirstIdLoop(i + 1, fieldname, text)
         ELSE IntVal(doc_offsets[i] + id.val)

MultiReaderFirstId(fieldname, text) ==
    MultiReaderFirstIdLoop(1, fieldname, text)

\* MultiMatcher: the ids of each posting reader plus its offset, the
\* posting readers taken in order
RECURSIVE MultiMatcherIds(_, _)
MultiMatcherIds(postreaders, docoffsets) ==
    IF postreaders = <<>> THEN <<>>
    ELSE [i \in 1..Len(Head(postreaders).ids) |->
             Head(postreaders).ids[i] + Head(docoffsets)]
         \o MultiMatcherIds(Tail(postreaders), Tail(docoffsets))

MultiMatcher(postreaders, docoffsets) ==
    Matcher(MultiMatcherIds(postreaders, docoffsets))

\* The loop of MultiReader.postings
RECURSIVE MultiReaderPostingsLoop(_, _, _, _, _)
MultiReaderPostingsLoop(i, fieldname, text, postreaders, docoffsets) ==
    IF i > Len(readers)
    THEN IF postreaders = <<>> THEN Raise("TermNotFound")
         ELSE MultiMatcher(postreaders, docoffsets)
    ELSE IF SegmentContains(readers[i], <<fieldname, text>>)
         THEN MultiReaderPostingsLoop(
                  i + 1, fieldname, text,
                  Append(postreaders,
                         SegmentPostings(readers[i], fieldname, text)),
                  Append(docoffsets, doc_offsets[i]))
         ELSE MultiReaderPostingsLoop(i + 1, fieldname, text, postreaders,
                                      docoffsets)

MultiReaderPostings(fieldname, text) ==
    MultiReaderPostingsLoop(1, fieldname, text, <<>>, <<>>)


\* [(r.term_info(fieldname, text), offset) for r, offset in
\*  zip_(self.readers, self.doc_offsets) if term in r]; reader is the
\* sub-reader the TermInfo came from
RECURSIVE TermInfos(_, _, _)
TermInfos(i, fieldname, text) ==
    IF i > Len(readers) \/ i > Len(doc_offsets) THEN <<>>
    ELSE (IF SegmentContains(readers[i], <<fieldname, text>>)
          THEN <<[ti |-> SegmentTermInfo(readers[i], fieldname, text),
                  offset |-> doc_offsets[i], reader |-> i]>>
          ELSE <<>>)
         \o TermInfos(i + 1, fieldname, text)

SeqMax(xs) == CHOOSE m \in {xs[i] : i \in 1..Len(xs)} :
                  \A i \in 1..Len(xs) : m >= xs[i]

\* MultiReader.term_info: the TermInfo returned and the sub-readers after
\* the call.  With one sub-reader holding the term, the offset is added to
\* the fields of the TermInfo that sub-reader returned; held says whether
\* that object is the one the sub-reader's terms reader keeps.
MultiReaderTermInfo(fieldname, text, held) ==
    LET tis == TermInfos(1, fieldname, text) IN
    IF tis = <<>>
    THEN [val |-> Raise("TermNotFound"), readers |-> readers]
    ELSE IF Len(tis) = 1
    THEN LET ti == [tis[1].ti EXCEPT !.minid = @ + tis[1].offset,
                                     !.maxid = @ + tis[1].offset]
         IN [val |-> ti,
             readers |-> IF held
                         THEN [readers EXCEPT
                                  ![tis[1].reader].terms[text].terminfo = ti]
                         ELSE readers]
    ELSE [val |-> TermInfo(
                    SeqSum([i \in 1..Len(tis) |-> tis[i].ti.weight]),
                    SeqSum([i \in 1..Len(tis) |-> tis[i].ti.df]),
                    SeqMin([i \in 1..Len(tis) |-> tis[i].ti.minlength]),
                    SeqMax([i \in 1..Len(tis) |-> tis[i].ti.maxlength]),
                    SeqMax([i \in 1..Len(tis) |-> tis[i].ti.maxweight]),
                    SeqMin([i \in 1..Len(tis) |->
                               tis[i].ti.minid + tis[i].offset]),
                    SeqMax([i \in 1..Len(tis) |->
                               tis[i].ti.maxid + tis[i].offset])),
          readers |-> readers]

----------------------------------------------------------------------------
(* Calls on a MultiReader                                                  *)

\* MultiReader(readers), the readers taken from segments
Opened(segments) ==
    /\ pc = "opened"
    /\ q = NullQuery
    /\ q2 = NullQuery
    /\ depth = 0
    /\ res = NullQuery
    /\ res2 = NullQuery
    /\ deleted = {}
    /\ post = <<>>
    /\ terms = {}
    /\ readers \in ReaderLists(MaxReaders, segments)
    /\ heap = <<>>
    /\ field = <<>>
    /\ frame = <<>>
    /\ doc_offsets = MultiReaderInit(readers).doc_offsets
    /\ base = MultiReaderInit(readers).base

\* Sub-readers told apart by their documents only
InitMultiReader == Opened(DocumentSegments)

\* Sub-readers told apart by their documents and their postings
InitPostings == Opened(Segments)

\* add_reader with base advanced before it is recorded as the offset
AddReaderBaseFirst ==
    /\ Len(readers) < MaxReaders
    /\ \E reader \in DocumentSegments :
          /\ readers' = Append(readers, reader)
          /\ base' = base + reader.doc_count_all
          /\ doc_offsets' = Append(doc_offsets, base')
    /\ pc' = "add_reader"
    /\ UNCHANGED <<q, q2, depth, res, res2, deleted, post, terms, heap,
                   field, frame>>

AddReader ==
    /\ Len(readers) < MaxReaders
    /\ \E reader \in DocumentSegments :
          /\ readers' = Append(readers, reader)
          /\ doc_offsets' = Append(doc_offsets, base)
          /\ base' = base + reader.doc_count_all
    /\ pc' = "add_reader"
    /\ UNCHANGED <<q, q2, depth, res, res2, deleted, post, terms, heap,
                   field, frame>>

\* The result of a call that only reads the MultiReader; q keeps the
\* argument of the call
Answered(name, argument, result) ==
    /\ pc' = name
    /\ q' = argument
    /\ res' = result
    /\ UNCHANGED <<q2, depth, res2, deleted, post, terms, readers, heap,
                   field, frame, doc_offsets, base>>

CallSegmentAndDocnum ==
    \E docnum \in 0..(MultiReaderDocCountAll - 1) :
        Answered("segment_and_docnum", IntVal(docnum),
                 segment_and_docnum(docnum))

CallIsDeleted ==
    \E docnum \in 0..(MultiReaderDocCountAll - 1) :
        Answered("is_deleted", IntVal(docnum), MultiReaderIsDeleted(docnum))

NextMultiReader ==
    \/ AddReader
    \/ CallSegmentAndDocnum
    \/ CallIsDeleted

SpecMultiReader == InitMultiReader /\ [][NextMultiReader]_vars

CallFirstId ==
    Answered("first_id", Tuple(F, TA), MultiReaderFirstId(F, TA))

CallPostings ==
    Answered("postings", Tuple(F, TA), MultiReaderPostings(F, TA))

NextPostings ==
    \/ CallFirstId
    \/ CallPostings

SpecPostings == InitPostings /\ [][NextPostings]_vars

\* term_info(fieldname, text)
CallTermInfo ==
    /\ pc = "opened"
    /\ \E text \in {TA}, held \in BOOLEAN :
          LET r == MultiReaderTermInfo(F, text, held) IN
          /\ q' = Tuple(F, text)
          /\ res' = r.val
          /\ readers' = r.readers
    /\ pc' = "term_info"
    /\ UNCHANGED <<q2, depth, res2, deleted, post, terms, heap, field, frame,
                   doc_offsets, base>>

\* term_info again, for the same term
CallTermInfoAgain ==
    /\ pc = "term_info"
    /\ \E held \in BOOLEAN :
          LET r == MultiReaderTermInfo(q.fieldname, q.text, held) IN
          /\ res2' = r.val
          /\ readers' = r.readers
    /\ pc' = "term_info_again"
    /\ UNCHANGED <<q, q2, depth, res, deleted, post, terms, heap, field,
                   frame, doc_offsets, base>>

NextTermInfo ==
    \/ CallTermInfo
    \/ CallTermInfoAgain

SpecTermInfo == InitPostings /\ [][NextTermInfo]_vars


\* The base of the i-th sub-reader: the documents of the sub-readers
\* before it
SegmentBase(i) == SumDocCountAll(SubSeq(readers, 1, i - 1))

\* The sub-readers whose dictionary has the text
Holders(text) == {i \in 1..Len(readers) : text \in DOMAIN readers[i].terms}

\* The global ids of the postings of the text that are not deleted
ActiveIds(text) ==
    UNION {{SegmentBase(i) + d :
               d \in readers[i].terms[text].ids \ readers[i].deleted} :
           i \in Holders(text)}

\* C22: first_id returns the lowest global doc id (segment base + local
\* id) over the posting lists of the segments, and raises TermNotFound
\* exactly when no segment has an active posting for the term.
FirstIdIsLowestGlobalId ==
    pc = "first_id" =>
        IF ActiveIds(q.text) = {} THEN res = Raise("TermNotFound")
        ELSE res = IntVal(SetMin(ActiveIds(q.text)))

\* Both segments hold the term, every posting of the first is deleted and
\* the id comes from the second
FirstIdWitness ==
    /\ pc = "first_id"
    /\ Holders(q.text) = {1, 2}
    /\ readers[1].terms[q.text].ids \subseteq readers[1].deleted
    /\ res.cls = "int"
    /\ res.val > SegmentBase(2)

\* C24: the ids of MultiReader.postings are strictly increasing and are
\* the offset ids of the posting lists of all segments holding the term;
\* TermNotFound is raised when no segment holds it.
PostingsAscendAcrossSegments ==
    pc = "postings" =>
        IF Holders(q.text) = {} THEN res = Raise("TermNotFound")
        ELSE /\ res.cls = "Matcher"
             /\ \A i \in 1..(Len(res.ids) - 1) : res.ids[i] < res.ids[i + 1]
             /\ IdSet(res) = ActiveIds(q.text)

\* Ids of two segments follow one another
PostingsWitness ==
    /\ pc = "postings"
    /\ Holders(q.text) = {1, 2}
    /\ res.cls = "Matcher"
    /\ \E i \in 1..(Len(res.ids) - 1) :
          res.ids[i] < SegmentBase(2) /\ res.ids[i + 1] >= SegmentBase(2)

\* The statistics of the text merged over the segments holding it
MergedTermInfo(text) ==
    LET H == Holders(text)
        df == Cardinality(UNION {{<<i, d>> : d \in readers[i].terms[text].ids}
                                 : i \in H})
    IN IF H = {} THEN Raise("TermNotFound")
       ELSE TermInfo(df, df, 1, 1, 1,
                     SetMin({SegmentBase(i) + SetMin(readers[i].terms[text].ids)
                             : i \in H}),
                     SetMax({SegmentBase(i) + SetMax(readers[i].terms[text].ids)
                             : i \in H}))

\* C25: term_info returns the statistics merged over the segments with
\* offset-adjusted ids on every call: two successive calls for a term
\* return the same values and the TermInfo of the sub-readers stay as
\* they were.
TermInfoMergesOnEveryCall ==
    /\ pc \in {"term_info", "term_info_again"} =>
          /\ res = MergedTermInfo(q.text)
          /\ \A i \in Holders(q.text) :
                readers[i].terms[q.text].terminfo =
                    PostedTermInfo(readers[i].terms[q.text].ids)
    /\ pc = "term_info_again" => res2 = res

\* The offsets as the claim states them
OffsetsFollowReaders ==
    /\ Len(doc_offsets) = Len(readers)
    /\ readers # <<>> => doc_offsets[1] = 0
    /\ \A i \in 1..(Len(readers) - 1) :
          doc_offsets[i + 1] = doc_offsets[i] + readers[i].doc_count_all
    /\ base = MultiReaderDocCountAll

\* C29: after construction and after any add_reader calls, doc_offsets has
\* one entry per sub-reader, starts at 0, each entry is the previous one
\* plus the previous sub-reader's doc_count_all, and base is
\* doc_count_all(); no call other than add_reader changes doc_offsets or
\* base.
OffsetInvariant ==
    /\ [](OffsetsFollowReaders)
    /\ [][pc' # "add_reader" => UNCHANGED <<doc_offsets, base>>]_vars

\* add_reader added a second sub-reader after a first with documents
OffsetWitness ==
    /\ pc = "add_reader"
    /\ Len(readers) = 2
    /\ doc_offsets[2] > 0
    /\ base > doc_offsets[2]

\* C30: for every global doc id d below doc_count_all(),
\* _segment_and_docnum(d) is (i, l) with doc_offsets[i] + l = d and l a
\* document of sub-reader i, and is_deleted asks the sub-reader that
\* holds d.
GlobalToLocal ==
    /\ pc = "segment_and_docnum" =>
          /\ res.cls = "tuple"
          /\ doc_offsets[res.segmentnum + 1] + res.segmentdoc = q.val
          /\ 0 <= res.segmentdoc
          /\ res.segmentdoc < readers[res.segmentnum + 1].doc_count_all
    /\ pc = "is_deleted" =>
          \E i \in 1..Len(readers) :
              /\ SegmentBase(i) <= q.val
              /\ q.val < SegmentBase(i) + readers[i].doc_count_all
              /\ res = Bool((q.val - SegmentBase(i)) \in readers[i].deleted)

\* The first segment is empty and the document is found in the second
GlobalToLocalWitness ==
    /\ pc = "segment_and_docnum"
    /\ Len(readers) = 2
    /\ readers[1].doc_count_all = 0
    /\ res.cls = "tuple"
    /\ res.segmentnum = 1


----------------------------------------------------------------------------
(* Matching with documents excluded by the caller                          *)

ExcludePostings == [Lexicon -> {{}, {0, 1}}]

InitExclude ==
    /\ pc = "operands"
    /\ q \in MatchOperands
    /\ q2 \in MatchOperands
    /\ depth = 0
    /\ res = NullQuery
    /\ res2 = NullQuery
    /\ deleted = {}
    /\ post \in ExcludePostings
    /\ terms = {}
    /\ readers = <<>>
    /\ heap = <<>>
    /\ field = <<>>
    /\ frame = <<>>
    /\ doc_offsets = <<>>
    /\ base = 0

\* q.matcher(searcher, exclude_docs=E); res2 keeps E
RunMatcherExcluding ==
    /\ pc = "composed"
    /\ \E exclude_docs \in SUBSET DocNums :
          /\ res' = QueryMatcher(q, exclude_docs)
          /\ res2' = BitVector(exclude_docs)
    /\ pc' = "matched_excluding"
    /\ UNCHANGED <<q, q2, depth, deleted, post, terms, readers, heap, field,
                   frame, doc_offsets, base>>

\* q.docs(searcher, exclude_docs=E); res2 keeps E
RunDocsExcluding ==
    /\ pc = "composed"
    /\ \E exclude_docs \in SUBSET DocNums :
          /\ res' = QueryDocs(q, exclude_docs)
          /\ res2' = BitVector(exclude_docs)
    /\ pc' = "docs_excluding"
    /\ UNCHANGED <<q, q2, depth, deleted, post, terms, readers, heap, field,
                   frame, doc_offsets, base>>

NextExclude ==
    \/ ComposeAnd
    \/ ComposeOr
    \/ ComposeNot
    \/ ComposeAndNot
    \/ ComposeRequire
    \/ RunMatcherExcluding
    \/ RunDocsExcluding

SpecExclude == InitExclude /\ [][NextExclude]_vars

\* C23: no doc id of the exclude set is yielded by the matcher or by docs
\* of a query, whatever its variant and nesting.
ExcludeDocsHonoured ==
    pc \in {"matched_excluding", "docs_excluding"} /\ ~IsError(res)
        => IdSet(res) \cap res2.bits = {}

----------------------------------------------------------------------------
(* accept                                                                  *)

\* The visitor: returns the node it is handed, and records the call
Visit(node, log) == [val |-> node, log |-> Append(log, node)]

RECURSIVE Accept(_, _)

\* [q.accept(visitor) for q in self.subqueries]
RECURSIVE AcceptLoop(_, _, _, _)
AcceptLoop(subqueries, i, qs, log) ==
    IF i > Len(subqueries) THEN [val |-> List(qs), log |-> log]
    ELSE LET r == Accept(subqueries[i], log) IN
         IF IsError(r.val) THEN r
         ELSE AcceptLoop(subqueries, i + 1, Append(qs, r.val), r.log)

\* Query.accept: the visitor is handed a deep copy of the whole node
QueryAccept(self, log) == Visit(self, log)

\* CompoundQuery.accept; Require and AndMaybe inherit it, and their
\* __init__ takes two queries, so self.__class__(qs, boost=...) raises
CompoundAccept(self, log) ==
    LET qs == AcceptLoop(self.subqueries, 1, <<>>, log) IN
    IF IsError(qs.val) THEN qs
    ELSE IF self.cls \in {"Require", "AndMaybe"}
         THEN [val |-> Raise("TypeError"), log |-> qs.log]
         ELSE Visit(NewCompound(self.cls, qs.val.items, self.boost), qs.log)

NotAccept(self, log) ==
    LET r == Accept(self.query, log) IN
    IF IsError(r.val) THEN r
    ELSE Visit(Not(r.val, self.boost), r.log)

Accept(self, log) ==
    CASE self.cls \in {"And", "Or", "DisjunctionMax", "Require", "AndMaybe"} ->
            CompoundAccept(self, log)
      [] self.cls = "Not" -> NotAccept(self, log)
      [] OTHER -> QueryAccept(self, log)

\* q.accept(visitor) with the recording identity visitor
AcceptOnce ==
    /\ pc = "build"
    /\ LET r == Accept(q, <<>>) IN
          /\ res' = r.val
          /\ res2' = List(r.log)
    /\ pc' = "accepted"
    /\ UNCHANGED <<q, q2, depth, deleted, post, terms, readers, heap, field, frame,
                 doc_offsets, base>>

NextAccept ==
    \/ WrapAnd
    \/ WrapOr
    \/ WrapDisjunctionMax
    \/ WrapNot
    \/ WrapBinary
    \/ AcceptOnce

SpecAccept == InitNorm /\ [][NextAccept]_vars

\* The sub-queries of a node, in order
SubNodes(x) ==
    CASE x.cls \in {"And", "Or", "DisjunctionMax", "Require", "AndMaybe"} ->
            x.subqueries
      [] x.cls = "Not" -> <<x.query>>
      [] x.cls = "AndNot" -> <<x.positive, x.negative>>
      [] OTHER -> <<>>

\* Every node of the tree, children before their parent
RECURSIVE PostOrder(_)
RECURSIVE PostOrderAll(_, _)
PostOrderAll(xs, i) ==
    IF i > Len(xs) THEN <<>> ELSE PostOrder(xs[i]) \o PostOrderAll(xs, i + 1)

PostOrder(x) == PostOrderAll(SubNodes(x), 1) \o <<x>>

\* C26: accept hands the visitor every node of the tree once, children
\* before parents, for every variant, and with the identity visitor the
\* result equals the original tree, min_match and tiebreak included.
AcceptVisitsBottomUp ==
    pc = "accepted" => res = q /\ res2.items = PostOrder(q)

----------------------------------------------------------------------------
(* replace                                                                 *)

RECURSIVE Replace(_, _, _)

\* [q.replace(oldtext, newtext) for q in self.subqueries]
RECURSIVE ReplaceLoop(_, _, _, _, _)
ReplaceLoop(subqueries, i, qs, oldtext, newtext) ==
    IF i > Len(subqueries) THEN List(qs)
    ELSE LET r == Replace(subqueries[i], oldtext, newtext) IN
         IF IsError(r) THEN r
         ELSE ReplaceLoop(subqueries, i + 1, Append(qs, r), oldtext, newtext)

TermReplace(self, oldtext, newtext) ==
    IF self.text = oldtext THEN Term(self.fieldname, newtext, self.boost)
    ELSE self

\* CompoundQuery.replace; Require and AndMaybe inherit it, and their
\* __init__ takes two queries, so self.__class__(list, boost=...) raises
CompoundReplace(self, oldtext, newtext) ==
    LET qs == ReplaceLoop(self.subqueries, 1, <<>>, oldtext, newtext) IN
    IF IsError(qs) THEN qs
    ELSE IF self.cls \in {"Require", "AndMaybe"} THEN Raise("TypeError")
         ELSE NewCompound(self.cls, qs.items, self.boost)

NotReplace(self, oldtext, newtext) ==
    LET r == Replace(self.query, oldtext, newtext) IN
    IF IsError(r) THEN r ELSE Not(r, self.boost)

TermRangeReplace(self, oldtext, newtext) ==
    IF self.start = oldtext
    THEN TermRange(self.fieldname, newtext, self.end, self.startexcl,
                   self.endexcl, self.boost)
    ELSE IF self.end = oldtext
         THEN TermRange(self.fieldname, self.start, newtext, self.startexcl,
                        self.endexcl, self.boost)
         ELSE self

PhraseReplace(self, oldtext, newtext) ==
    Phrase(self.fieldname,
           [i \in 1..Len(self.words) |->
               IF self.words[i] = oldtext THEN newtext ELSE self.words[i]],
           self.slop, self.boost)

AndNotReplace(self, oldtext, newtext) ==
    LET p == Replace(self.positive, oldtext, newtext) IN
    IF IsError(p) THEN p
    ELSE LET n == Replace(self.negative, oldtext, newtext) IN
         IF IsError(n) THEN n ELSE AndNot(p, n, self.boost)

Replace(self, oldtext, newtext) ==
    CASE self.cls = "Term" -> TermReplace(self, oldtext, newtext)
      [] self.cls \in {"And", "Or", "DisjunctionMax", "Require", "AndMaybe"} ->
            CompoundReplace(self, oldtext, newtext)
      [] self.cls = "Not" -> NotReplace(self, oldtext, newtext)
      [] self.cls = "TermRange" -> TermRangeReplace(self, oldtext, newtext)
      [] self.cls = "Phrase" -> PhraseReplace(self, oldtext, newtext)
      [] self.cls = "AndNot" -> AndNotReplace(self, oldtext, newtext)
      [] OTHER -> self

ReplaceArgs(oldtext, newtext) ==
    [cls |-> "args", oldtext |-> oldtext, newtext |-> newtext]

OldTexts == {TA, TC}
NewTexts == {TB}

\* q.replace(oldtext, newtext)
ReplaceOnce ==
    /\ pc = "build"
    /\ \E oldtext \in OldTexts, newtext \in NewTexts :
          /\ res' = Replace(q, oldtext, newtext)
          /\ res2' = ReplaceArgs(oldtext, newtext)
    /\ pc' = "replaced"
    /\ UNCHANGED <<q, q2, depth, deleted, post, terms, readers, heap, field, frame,
                 doc_offsets, base>>

NextReplace ==
    \/ WrapAnd
    \/ WrapOr
    \/ WrapDisjunctionMax
    \/ WrapNot
    \/ WrapBinary
    \/ ReplaceOnce

SpecReplace == InitNorm /\ [][NextReplace]_vars

\* The tree x with every text equal to old in a Term, TermRange or Phrase
\* turned into new, and nothing else changed
RECURSIVE Substituted(_, _, _)
Substituted(x, old, new) ==
    LET sub(t) == IF t = old THEN new ELSE t IN
    CASE x.cls = "Term" -> [x EXCEPT !.text = sub(@)]
      [] x.cls = "TermRange" -> [x EXCEPT !.start = sub(@), !.end = sub(@)]
      [] x.cls = "Phrase" ->
            [x EXCEPT !.words = [i \in 1..Len(@) |-> sub(@[i])]]
      [] x.cls \in {"And", "Or", "DisjunctionMax", "Require", "AndMaybe"} ->
            [x EXCEPT !.subqueries =
                         [i \in 1..Len(@) |-> Substituted(@[i], old, new)]]
      [] x.cls = "Not" -> [x EXCEPT !.query = Substituted(@, old, new)]
      [] x.cls = "AndNot" ->
            [x EXCEPT !.positive = Substituted(@, old, new),
                      !.negative = Substituted(@, old, new)]
      [] OTHER -> x

\* C27: replace returns the tree of the same shape in which each text equal
\* to old is new and every other field is unchanged, for every variant; the
\* original when old occurs nowhere.
ReplaceSubstitutes ==
    pc = "replaced" => res = Substituted(q, res2.oldtext, res2.newtext)

----------------------------------------------------------------------------
(* The documents a query matches, before and after normalize               *)

\* A TermRange is normalized and matched on its own, the other leaves also
\* inside compounds
MeaningLeaves ==
    {TermA, TermB, NullQuery, Not(TermA, 1),
     TermRange(F, TA, TA, TRUE, FALSE, 1),
     TermRange(F, TA, TB, FALSE, TRUE, 1),
     Or(<<TermA, TermB>>, 1, 2)}

MeaningPostings == [Lexicon -> {{0, 1}, {1, 2}}]

InitMeaning ==
    /\ pc = "build"
    /\ q \in MeaningLeaves
    /\ q2 = NullQuery
    /\ depth = IF q.cls = "TermRange" THEN MaxDepth ELSE 0
    /\ res = NullQuery
    /\ res2 = NullQuery
    /\ deleted \in {{}, {1}}
    /\ post \in MeaningPostings
    /\ terms = {<<F, t>> : t \in Lexicon}
    /\ readers = <<>>
    /\ heap = <<>>
    /\ field = <<>>
    /\ frame = <<>>
    /\ doc_offsets = <<>>
    /\ base = 0

\* q.matcher(searcher) and q.normalize().matcher(searcher)
NormalizeAndMatch ==
    /\ pc = "build"
    /\ res' = QueryMatcher(q, None)
    /\ res2' = LET n == Normalize(q) IN
               IF IsError(n) THEN n ELSE QueryMatcher(n, None)
    /\ pc' = "normalized"
    /\ UNCHANGED <<q, q2, depth, deleted, post, terms, readers, heap, field, frame,
                 doc_offsets, base>>

NextMeaning ==
    \/ WrapAnd
    \/ WrapOr
    \/ WrapDisjunctionMax
    \/ WrapNot
    \/ WrapBinary
    \/ NormalizeAndMatch

SpecMeaning == InitMeaning /\ [][NextMeaning]_vars

\* C28: the normalized query matches exactly the documents the query
\* matches.
NormalizePreservesMeaning ==
    pc = "normalized" /\ ~IsError(res)
        => ~IsError(res2) /\ IdSet(res2) = IdSet(res)

====
